---- MODULE Spec2Model ----
(***************************************************************************)
(* Quadtree LOD cubesphere (luna::scene::CubesphereBody) together with the *)
(* graphics queue it submits to and the frame loop that drives it.         *)
(*                                                                         *)
(* Geometry is kept in integers: lengths are in kilometres, UV coordinates *)
(* are in units of 1/UvOne, and glm::length is the Chebyshev norm on the   *)
(* cube (the projection onto the sphere is not applied).  The control flow *)
(* of update()/updateNode()/draw() is translated statement by statement.   *)
(***************************************************************************)
EXTENDS Integers, Sequences, FiniteSets, TLC

(* ------------------------------------------------------------------ *)
(* Bounds of the model.  The three capacity constants of the class are *)
(* scaled down (source values: 15, 64, 512) so that the depth limit,   *)
(* the exhaustion of the budget and a full batch are all reached.      *)
(* ------------------------------------------------------------------ *)
MAX_DEPTH ==
    2
MAX_SPLITS_PER_FRAME ==
    8
MESHES_PER_BATCH ==
    8
MaxFrames ==
    4
\* width of VkDeviceSize in bits (source: 64)
SizeBits ==
    20
\* writes per batch in the runs of StagingBatch on its own
MaxWrites ==
    3
\* calls of load() on one Heightmap
MaxLoads ==
    2
\* width of uint32_t in bits in ChunkGenerator::generate (source: 32)
GridWordBits ==
    6
\* greatest camera distance at which the screen error of a patch is evaluated
MaxDistance ==
    14
\* calls of ChunkGenerator::generate in one behaviour
MaxCalls ==
    2
\* the elements a std::vector can take before std::bad_alloc
MaxElements ==
    1024
\* bits of the significand of a float (source: 24)
FloatBits ==
    14
\* handles of one kind the device hands out
MaxHandles ==
    3

(* Program constants *)
PATCH_GRID ==
    17
SPLIT_THRESHOLD ==
    4
MERGE_THRESHOLD ==
    2
MAX_TERRAIN_DISPLACEMENT ==
    12
MAX_FRAMES_IN_FLIGHT ==
    2
\* LUNAR_RADIUS, in km, rounded down to a multiple of 8 km so that the
\* centre of every patch down to depth 3 has integral coordinates.
Radius ==
    1736

NoMesh == 0
\* VK_NULL_HANDLE of a staging buffer
NoBuffer == 0

\* BYTES_PER_MESH: the staging capacity set aside for one mesh
\* (sizeof(float) = sizeof(uint32_t) = 4)
BYTES_PER_MESH ==
    PATCH_GRID * PATCH_GRID * 4 * 7
    + (PATCH_GRID - 1) * (PATCH_GRID - 1) * 6 * 4
    + PATCH_GRID * 4 * (4 * 7 + 6 * 4)

\* ChunkGenerator::generate with gridSize = PATCH_GRID: bytes of the vertices
\* (grid and four skirts, sizeof(ChunkVertex) = 20) and of the indices
VertexBytes == (PATCH_GRID * PATCH_GRID + 4 * PATCH_GRID) * 20
IndexBytes ==
    ((PATCH_GRID - 1) * (PATCH_GRID - 1) * 6 + 4 * (PATCH_GRID - 1) * 6) * 4
Faces == 0 .. 5
Quads == 0 .. 3

(* ------------------------------------------------------------------ *)
(* Vector helpers                                                      *)
(* ------------------------------------------------------------------ *)
Abs(x) == IF x < 0 THEN -x ELSE x
Max2(a, b) == IF a > b THEN a ELSE b

RECURSIVE Pow2(_)
Pow2(n) == IF n = 0 THEN 1 ELSE 2 * Pow2(n - 1)

\* 1.0 in UV units
UvOne == Pow2(MAX_DEPTH)

VSub(a, b) == <<a[1] - b[1], a[2] - b[2], a[3] - b[3]>>
Dot3(a, b) == a[1] * b[1] + a[2] * b[2] + a[3] * b[3]

\* glm::length (Chebyshev norm in the model)
Length(v) == Max2(Abs(v[1]), Max2(Abs(v[2]), Abs(v[3])))

\* ChunkGenerator::facePointToSphere, scaled by UvOne
facePointToSphere(face, u, v) ==
    CASE face = 0 -> <<UvOne, u, v>>
      [] face = 1 -> <<-UvOne, -u, v>>
      [] face = 2 -> <<u, UvOne, -v>>
      [] face = 3 -> <<u, -UvOne, v>>
      [] face = 4 -> <<u, v, UvOne>>
      [] face = 5 -> <<-u, v, -UvOne>>
      [] OTHER -> <<UvOne, 0, 0>>

\* facePointToSphere(face, u, v) * radius_
WorldPoint(face, u, v) ==
    LET p == facePointToSphere(face, u, v)
    IN <<(p[1] * Radius) \div UvOne, (p[2] * Radius) \div UvOne, (p[3] * Radius) \div UvOne>>

SetMax(S) == CHOOSE x \in S : \A y \in S : y <= x

(* ------------------------------------------------------------------ *)
(* QuadtreeNode and initNode                                           *)
(* ------------------------------------------------------------------ *)
NoChildren == <<FALSE, FALSE, FALSE, FALSE>>
AllChildren == <<TRUE, TRUE, TRUE, TRUE>>

\* A freshly made node (std::make_unique<QuadtreeNode>()) filled in by initNode
initNode(face, u0, u1, v0, v1, depth) ==
    LET uMid == (u0 + u1) \div 2
        vMid == (v0 + v1) \div 2
        center == WorldPoint(face, uMid, vMid)
        testPoints == {WorldPoint(face, u0, v0), WorldPoint(face, u1, v0),
                       WorldPoint(face, u0, v1), WorldPoint(face, u1, v1),
                       WorldPoint(face, uMid, v0), WorldPoint(face, uMid, v1),
                       WorldPoint(face, u0, vMid), WorldPoint(face, u1, vMid)}
    IN [faceIndex |-> face, u0 |-> u0, u1 |-> u1, v0 |-> v0, v1 |-> v1,
        depth |-> depth,
        worldCenter |-> center,
        boundingRadius |-> SetMax({0} \cup {Length(VSub(p, center)) : p \in testPoints})
                           + MAX_TERRAIN_DISPLACEMENT,
        mesh |-> NoMesh,
        children |-> NoChildren]

isLeaf(node) == ~node.children[1]
hasMesh(node) == node.mesh # NoMesh

\* Path of the i-th child (i in 0..3) of the node at path p
ChildPath(p, i) == Append(p, i)

(* ------------------------------------------------------------------ *)
(* Camera inputs of update()/draw()                                    *)
(*   pos    cameraPos                                                  *)
(*   scale  screenHeight / (2 tan(fovY / 2)), in pixels                *)
(*   planes the six normalised frustum planes <<nx, ny, nz, w>>,       *)
(*          written in units of 1 / PlaneUnit                          *)
(* ------------------------------------------------------------------ *)
\* the length of the vector <<nx, ny, nz>> of a normalised plane as written here
PlaneUnit == 5

WideFrustum ==
    <<<<5, 0, 0, 500000>>, <<-5, 0, 0, 500000>>, <<0, 5, 0, 500000>>,
      <<0, -5, 0, 500000>>, <<0, 0, 5, 500000>>, <<0, 0, -5, 500000>>>>
\* as WideFrustum, with the bottom plane pulled in: a sphere passes only if the
\* y-offset of its centre is at least 1000 - radius
HighFrustum ==
    <<<<5, 0, 0, 500000>>, <<-5, 0, 0, 500000>>, <<0, 5, 0, -5000>>,
      <<0, -5, 0, 500000>>, <<0, 0, 5, 500000>>, <<0, 0, -5, 500000>>>>
\* as WideFrustum, with the left plane through the camera and tilted: a sphere
\* passes only if (3 y + 4 z) / 5 of its offset is at least -radius
SideFrustum ==
    <<<<0, 3, 4, 0>>, <<-5, 0, 0, 500000>>, <<0, 5, 0, 500000>>,
      <<0, -5, 0, 500000>>, <<0, 0, 5, 500000>>, <<0, 0, -5, 500000>>>>

\* 10000 km above the centre of face 0 and of face 1
FarPos == <<11736, 0, 0>>
BackPos == <<-11736, 0, 0>>
\* as FarPos, 2500 km to the side
SidePos == <<11736, 0, 2500>>

Cameras ==
    { [pos |-> FarPos, scale |-> 300, planes |-> WideFrustum],
      [pos |-> FarPos, scale |-> 400, planes |-> WideFrustum],
      [pos |-> FarPos, scale |-> 800, planes |-> HighFrustum],
      [pos |-> BackPos, scale |-> 400, planes |-> HighFrustum],
      [pos |-> SidePos, scale |-> 300, planes |-> SideFrustum] }

\* CubesphereBody::sphereInFrustum
sphereInFrustum(planes, center, radius) ==
    \A i \in 1 .. 6 :
        ~(Dot3(<<planes[i][1], planes[i][2], planes[i][3]>>, center) + planes[i][4]
            < -radius * PlaneUnit)

\* screenError of updateNode as the fraction num/den:
\*   distance       = max(length(worldCenter - cameraPos), boundingRadius * 0.1)
\*   geometricError = boundingRadius * 2 / (PATCH_GRID - 1)
\*   screenError    = geometricError / distance * scale
\* (numerator and denominator both multiplied by 10)
\* the distance without its lower limit
Distance10Unclamped(node, cam) ==
    10 * Length(VSub(node.worldCenter, cam.pos))

Distance10(node, cam) ==
    Max2(10 * Length(VSub(node.worldCenter, cam.pos)), node.boundingRadius)
screenError(node, cam) ==
    [num |-> node.boundingRadius * 2 * 10 * cam.scale,
     den |-> (PATCH_GRID - 1) * Distance10(node, cam),
     r   |-> node.boundingRadius,
     d10 |-> Distance10(node, cam)]
ErrGT(e, threshold) == e.num > threshold * e.den
ErrLT(e, threshold) == e.num < threshold * e.den
\* e1 < e2 for two errors of the same frame (the common factor 20*scale/16 cancels)
ErrLess(e1, e2) == e1.r * e2.d10 < e2.r * e1.d10

visible(node, cam) ==
    sphereInFrustum(cam.planes, VSub(node.worldCenter, cam.pos), node.boundingRadius)

(* ------------------------------------------------------------------ *)
(* State                                                               *)
(* ------------------------------------------------------------------ *)
VARIABLES
    nodes,            \* the forest: path -> QuadtreeNode (roots_ and all descendants)
    deferredDestroy_, \* CubesphereBody::deferredDestroy_
    activeNodes_,     \* CubesphereBody::activeNodes_
    batchCount_,      \* CubesphereBody::batchCount_
    splitBudget,      \* update(): uint32_t splitBudget
    stack,            \* pending updateNode calls of the traversal, next call first
    cam,              \* arguments of the current update()/draw()
    cmdCopies,        \* meshes whose upload copy is recorded in the one-shot cmd
    queue,            \* graphics queue: submissions the device has not finished
    inFlight,         \* Sync::inFlight_: fence of each frame slot is signalled
    currentFrame,     \* main(): currentFrame
    pc,               \* position of the frame loop
    frameNo,          \* frames started so far
    freedInFlight,    \* meshes destroyed while a submission on the queue uses them
    log,              \* what the current update() has done so far
    staging,          \* the StagingBatch of the constructor / of update()
    history,          \* transfers submitted, meshes uploaded, staging buffers
                      \* destroyed while a submission on the queue reads them
    heightmap,        \* the Heightmap object, its last load() and sample()
    meshData,         \* the calls of ChunkGenerator::generate, newest first
    device,           \* device objects made by Buffer::createRaw and the one-shot calls
    screen,           \* evaluations of the screen error of one patch, newest first
    loop,             \* main(): the frame loop, its fences and command buffers
    sim,              \* main(): simState and the calls of Physics::step
    objects           \* Buffer objects and the device calls they have made

vars == <<nodes, deferredDestroy_, activeNodes_, batchCount_, splitBudget, stack, cam,
          cmdCopies, queue, inFlight, currentFrame, pc, frameNo, freedInFlight, log,
          staging, history, heightmap, meshData, device, screen, loop, sim, objects>>

Range(s) == {s[i] : i \in 1 .. Len(s)}
Slots == 0 .. (MAX_FRAMES_IN_FLIGHT - 1)

\* The part of the state that mesh generation and submission act on
World ==
    [nodes |-> nodes, deferredDestroy_ |-> deferredDestroy_, batchCount_ |-> batchCount_,
     cmdCopies |-> cmdCopies, queue |-> queue, inFlight |-> inFlight,
     freedInFlight |-> freedInFlight, staging |-> staging, history |-> history]

Install(S) ==
    /\ nodes' = S.nodes
    /\ deferredDestroy_' = S.deferredDestroy_
    /\ batchCount_' = S.batchCount_
    /\ cmdCopies' = S.cmdCopies
    /\ queue' = S.queue
    /\ inFlight' = S.inFlight
    /\ freedInFlight' = S.freedInFlight
    /\ staging' = S.staging
    /\ history' = S.history

QueueMeshes(q) == UNION {q[i].meshes : i \in 1 .. Len(q)}

(* ------------------------------------------------------------------ *)
(* Graphics queue                                                      *)
(* ------------------------------------------------------------------ *)
\* vkQueueSubmit
QueueSubmit(S, submission) == [S EXCEPT !.queue = Append(@, submission)]

\* the meshes whose upload is carried by the transfers of the queue q
TransferMeshes(q) ==
    UNION {q[i].meshes : i \in {j \in 1 .. Len(q) : q[j].kind = "transfer"}}

\* the staging buffers that the transfers of the queue q copy from
StagingReads(q) ==
    {q[i].staging : i \in {j \in 1 .. Len(q) : q[j].kind = "transfer"}} \ {NoBuffer}

\* vkQueueWaitIdle returning at once, with the submissions still executing
QueueWaitIdleReturnsEarly(S) == S

\* vkQueueWaitIdle: returns once the device has finished every submission
QueueWaitIdle(S) ==
    [S EXCEPT !.queue = <<>>,
              !.inFlight = [s \in Slots |->
                              S.inFlight[s] \/ \E i \in 1 .. Len(S.queue) :
                                                  S.queue[i].kind = "draw" /\ S.queue[i].slot = s],
              !.freedInFlight = {},
              !.history.uploaded = @ \cup TransferMeshes(S.queue)]

\* the command buffer of the batch as a submission: the copies recorded in it
\* and the staging buffer they read
TransferSubmission(S) ==
    [kind |-> "transfer", meshes |-> S.cmdCopies, slot |-> -1, staging |-> S.staging.buffer,
     calls |-> <<>>]

\* CommandPool::endOneShot without the wait for the device
endOneShotNoWait(S) ==
    [QueueSubmit(S, TransferSubmission(S))
        EXCEPT !.cmdCopies = {},
               !.history.transfers = Append(@, S.cmdCopies)]

\* CommandPool::endOneShot: submit, vkQueueWaitIdle, free the command buffer
endOneShot(S) ==
    [QueueWaitIdle(QueueSubmit(S, TransferSubmission(S)))
        EXCEPT !.cmdCopies = {},
               !.history.transfers = Append(@, S.cmdCopies)]

(* ------------------------------------------------------------------ *)
(* StagingBatch                                                        *)
(* ------------------------------------------------------------------ *)
\* VkDeviceSize arithmetic is modulo 2^SizeBits
SizeModulus == Pow2(SizeBits)

\* A StagingBatch as declared: no buffer, mapped = nullptr, offset = capacity = 0.
\* writes lists the calls of write() since begin(): the size passed and the
\* offset returned
NoStaging ==
    [buffer |-> NoBuffer, mapped |-> FALSE, offset |-> 0, capacity |-> 0, writes |-> <<>>]

\* Buffer::createDynamic: a buffer distinct from every buffer still around
NewBuffer(S) ==
    CHOOSE b \in 1 .. (Cardinality(StagingReads(S.queue) \cup S.history.stagingFreedInFlight) + 2) :
        /\ b \notin StagingReads(S.queue) \cup S.history.stagingFreedInFlight \cup {S.staging.buffer}
        /\ \A k \in 1 .. (b - 1) :
              k \in StagingReads(S.queue) \cup S.history.stagingFreedInFlight \cup {S.staging.buffer}

\* Buffer::cleanup of the buffer of the batch (vkDestroyBuffer, vkFreeMemory)
DestroyStagingBuffer(S0) ==
    CHOOSE R \in
        { [S EXCEPT !.history.stagingFreedInFlight =
                        @ \cup ({S.staging.buffer} \cap StagingReads(S.queue)),
                    !.staging.buffer = NoBuffer] : S \in {S0} } : TRUE

\* StagingBatch::begin: the move assignment destroys the buffer held before
StagingBegin(S0, cap) ==
    CHOOSE R \in
        { [DestroyStagingBuffer(S) EXCEPT
              !.staging = [buffer |-> NewBuffer(S), mapped |-> TRUE, offset |-> 0,
                           capacity |-> cap, writes |-> <<>>]] : S \in {S0} } : TRUE

\* StagingBatch::end
StagingEnd(st) == [st EXCEPT !.mapped = FALSE]

\* a write that leaves room for another mesh after what it copied
StagingWritePadded(st, size) ==
    [st EXCEPT !.offset = (@ + size + BYTES_PER_MESH) % SizeModulus,
               !.writes = Append(@, [size |-> size, ret |-> st.offset])]

\* StagingBatch::write: srcOffset = offset; memcpy; offset += size; return srcOffset
StagingWrite(st, size) ==
    [st EXCEPT !.offset = (@ + size) % SizeModulus,
               !.writes = Append(@, [size |-> size, ret |-> st.offset])]

\* the destructor of the StagingBatch at the end of its scope
StagingScopeExit(S) == [DestroyStagingBuffer(S) EXCEPT !.staging = NoStaging]

(* ------------------------------------------------------------------ *)
(* Mesh generation                                                     *)
(* ------------------------------------------------------------------ *)
MeshesInUse(S) ==
    ({S.nodes[p].mesh : p \in DOMAIN S.nodes} \cup Range(S.deferredDestroy_)
        \cup S.cmdCopies \cup QueueMeshes(S.queue) \cup S.freedInFlight) \ {NoMesh}

\* std::make_unique<Mesh>: a device mesh distinct from every mesh still around
NewMesh(S) ==
    CHOOSE m \in 1 .. (Cardinality(MeshesInUse(S)) + 1) :
        /\ m \notin MeshesInUse(S)
        /\ \A k \in 1 .. (m - 1) : k \in MeshesInUse(S)

\* ChunkGenerator::generate(...).worldCenter with the flat heightfield
MeshCenter(node) ==
    WorldPoint(node.faceIndex, (node.u0 + node.u1) \div 2, (node.v0 + node.v1) \div 2)

\* generateMeshBatched that starts the fresh sub-batch without batchCount_ = 0
generateMeshBatchedKeepsCount(S0, p) ==
    CHOOSE R \in
        { IF S1.batchCount_ >= MESHES_PER_BATCH
          THEN StagingBegin(endOneShot([S1 EXCEPT !.staging = StagingEnd(@)]),
                            MESHES_PER_BATCH * BYTES_PER_MESH)
          ELSE S1 :
            S1 \in { [S[1] EXCEPT !.nodes[p].worldCenter = MeshCenter(S[1].nodes[p]),
                                  !.nodes[p].mesh = S[2],
                                  !.staging = StagingWrite(StagingWrite(@, VertexBytes),
                                                           IndexBytes),
                                  !.cmdCopies = @ \cup {S[2]},
                                  !.batchCount_ = @ + 1] :
                       S \in {<<T, NewMesh(T)>> : T \in {S0}} } } : TRUE

\* CubesphereBody::generateMeshBatched
\* (the set brackets only name intermediate values)
generateMeshBatched(S0, p) ==
    CHOOSE R \in
        { IF S1.batchCount_ >= MESHES_PER_BATCH
          THEN [StagingBegin(endOneShot([S1 EXCEPT !.staging = StagingEnd(@)]),
                             MESHES_PER_BATCH * BYTES_PER_MESH)
                   EXCEPT !.batchCount_ = 0]
          ELSE S1 :
            S1 \in { [S[1] EXCEPT !.nodes[p].worldCenter = MeshCenter(S[1].nodes[p]),
                                  !.nodes[p].mesh = S[2],
                                  !.staging = StagingWrite(StagingWrite(@, VertexBytes),
                                                           IndexBytes),
                                  !.cmdCopies = @ \cup {S[2]},
                                  !.batchCount_ = @ + 1] :
                       S \in {<<T, NewMesh(T)>> : T \in {S0}} } } : TRUE

(* ------------------------------------------------------------------ *)
(* Constructor                                                         *)
(* ------------------------------------------------------------------ *)
RECURSIVE ConstructRoots(_, _)
ConstructRoots(S, n) ==
    IF n = 0 THEN S
    ELSE LET face == n - 1
         IN CHOOSE R \in
                { generateMeshBatched(
                      [T EXCEPT !.nodes = [p \in (DOMAIN T.nodes) \cup {<<face>>} |->
                          IF p = <<face>>
                          THEN initNode(face, -UvOne, UvOne, -UvOne, UvOne, 0)
                          ELSE T.nodes[p]]],
                      <<face>>) : T \in {ConstructRoots(S, n - 1)} } : TRUE

\* the constructor after its loop over the faces, before the flush
ConstructorBatch ==
    LET S0 == [nodes |-> [p \in {} |-> 0], deferredDestroy_ |-> <<>>, batchCount_ |-> 0,
               cmdCopies |-> {}, queue |-> <<>>,
               inFlight |-> [s \in Slots |-> TRUE], freedInFlight |-> {},
               staging |-> NoStaging,
               history |-> [transfers |-> <<>>, uploaded |-> {},
                            stagingFreedInFlight |-> {}]]
    IN ConstructRoots(StagingBegin(S0, 6 * BYTES_PER_MESH), 6)

Constructed ==
    LET S0 == [nodes |-> [p \in {} |-> 0], deferredDestroy_ |-> <<>>, batchCount_ |-> 0,
               cmdCopies |-> {}, queue |-> <<>>,
               inFlight |-> [s \in Slots |-> TRUE], freedInFlight |-> {},
               staging |-> NoStaging,
               history |-> [transfers |-> <<>>, uploaded |-> {},
                            stagingFreedInFlight |-> {}]]
    IN CHOOSE R \in
          { StagingScopeExit(IF S6.batchCount_ > 0
                             THEN endOneShot([S6 EXCEPT !.staging = StagingEnd(@)])
                             ELSE S6) :
              S6 \in {ConstructRoots(StagingBegin(S0, 6 * BYTES_PER_MESH), 6)} } : TRUE

\* Record of the current update(): the nodes split and merged, the number of
\* children created, the calls of updateNode in order, the leaves that met the
\* split rule when it began, the meshes that draws in flight were reading when
\* it began, the meshes its deferredDestroy_.clear() destroyed and the leaves
\* that the update() before it left alone for lack of budget
(* ------------------------------------------------------------------ *)
(* Heightmap: TIFF parser and sampler                                  *)
(*   a file is [exists, bytes]; bytes are 0 .. 255                     *)
(*   a float is the tuple of its four bytes in memory (host order,     *)
(*   least significant first)                                          *)
(* ------------------------------------------------------------------ *)
\* TiffReader::u16
u16(buf, littleEndian, off) ==
    IF littleEndian THEN buf[off + 1] + 256 * buf[off + 2]
    ELSE 256 * buf[off + 1] + buf[off + 2]

\* TiffReader::u32
u32(buf, littleEndian, off) ==
    IF littleEndian
    THEN buf[off + 1] + 256 * buf[off + 2] + 65536 * buf[off + 3] + 16777216 * buf[off + 4]
    ELSE 16777216 * buf[off + 1] + 65536 * buf[off + 2] + 256 * buf[off + 3] + buf[off + 4]

\* TiffReader::ifdValue
ifdValue(buf, littleEndian, entry, type) ==
    IF type = 3 /\ u32(buf, littleEndian, entry + 4) = 1
    THEN u16(buf, littleEndian, entry + 8)
    ELSE u32(buf, littleEndian, entry + 8)

\* the n bytes at off lie inside the buffer
Readable(buf, off, n) == off + n <= Len(buf)

\* the float whose bytes are at off
FloatAt(buf, off) == <<buf[off + 1], buf[off + 2], buf[off + 3], buf[off + 4]>>

\* swapFloatBytes on one element
swapFloat(f) == <<f[4], f[3], f[2], f[1]>>

\* float to double, in whole units (a fraction is dropped)
FloatValue(f) ==
    LET e == 2 * (f[4] % 128) + f[3] \div 128
        m == 8388608 + 65536 * (f[3] % 128) + 256 * f[2] + f[1]
        mag == IF e < 127 THEN 0
               ELSE IF e <= 150 THEN m \div Pow2(150 - e)
               ELSE m * Pow2(e - 150)
    IN IF f[4] >= 128 THEN -mag ELSE mag

\* A Heightmap as declared: data_ empty, width_ = height_ = 0.
\*   ret      what the last load() did: "none", "true", "false", or "crash"
\*   file     the file that load() was given
\*   loaded   isLoaded() before that load()
\*   sampled  the last sample() since: <<[lat, lon, value]>>
\*   loads    the number of load() calls so far
NoHeightmap ==
    [data_ |-> <<>>, width_ |-> 0, height_ |-> 0, ret |-> "none",
     file |-> [exists |-> FALSE, bytes |-> <<>>], loaded |-> FALSE, sampled |-> <<>>,
     loads |-> 0]

\* the fields that the loop over the IFD entries of load() sets, after the
\* entries 0 .. n-1
RECURSIVE ScanEntries(_, _, _, _)
ScanEntries(buf, littleEndian, ifdOff, n) ==
    IF n = 0
    THEN [width |-> 0, height |-> 0, stripOffsetCount |-> 0, stripOffsetsValue |-> 0,
          stripOffsetType |-> 0, rowsPerStrip |-> 0]
    ELSE LET prev == ScanEntries(buf, littleEndian, ifdOff, n - 1)
             entry == ifdOff + 2 + (n - 1) * 12
             tag == u16(buf, littleEndian, entry)
             type == u16(buf, littleEndian, entry + 2)
             count == u32(buf, littleEndian, entry + 4)
         IN CASE tag = 256 -> [prev EXCEPT !.width = ifdValue(buf, littleEndian, entry, type)]
              [] tag = 257 -> [prev EXCEPT !.height = ifdValue(buf, littleEndian, entry, type)]
              [] tag = 273 -> [prev EXCEPT !.stripOffsetCount = count,
                                           !.stripOffsetType = type,
                                           !.stripOffsetsValue = u32(buf, littleEndian, entry + 8)]
              [] tag = 278 -> [prev EXCEPT !.rowsPerStrip = ifdValue(buf, littleEndian, entry, type)]
              [] OTHER -> prev

\* memcpy of n floats from the file at off into data at index at (from 0)
CopyFloats(data, at, buf, off, n) ==
    [k \in 1 .. Len(data) |->
        IF k > at /\ k <= at + n THEN FloatAt(buf, off + 4 * (k - at - 1)) ELSE data[k]]

\* the loop over the strips of load(), from strip s on; ub: a read or a copy
\* went outside the file
RECURSIVE ReadStrips(_, _, _, _, _, _)
ReadStrips(buf, littleEndian, t, s, rowsRead, data) ==
    IF ~(s < t.stripOffsetCount /\ rowsRead < t.height)
    THEN [ub |-> FALSE, data |-> data]
    ELSE LET at == IF t.stripOffsetType = 3 THEN t.stripOffsetsValue + s * 2
                   ELSE t.stripOffsetsValue + s * 4
             size == IF t.stripOffsetType = 3 THEN 2 ELSE 4
         IN IF ~Readable(buf, at, size) THEN [ub |-> TRUE, data |-> data]
            ELSE LET off == IF t.stripOffsetType = 3 THEN u16(buf, littleEndian, at)
                            ELSE u32(buf, littleEndian, at)
                     rows == IF t.rowsPerStrip < t.height - rowsRead
                             THEN t.rowsPerStrip ELSE t.height - rowsRead
                 IN IF ~Readable(buf, off, rows * t.width * 4)
                    THEN [ub |-> TRUE, data |-> data]
                    ELSE ReadStrips(buf, littleEndian, t, s + 1, rowsRead + rows,
                                    CopyFloats(data, rowsRead * t.width, buf, off,
                                               rows * t.width))

\* data_.resize(n): the elements already there stay, new ones are zero
Resize(data, n) ==
    [k \in 1 .. n |-> IF k <= Len(data) THEN data[k] ELSE <<0, 0, 0, 0>>]

\* What a read outside the buffer can lead to: the process is killed, or the
\* bytes found there send load() down any of its paths (here: no dimensions
\* found, or a 1 x 1 map of whatever was read)
OutOfBounds(h) ==
    { [h EXCEPT !.ret = "crash"],
      [h EXCEPT !.ret = "false"],
      [h EXCEPT !.ret = "true", !.width_ = 1, !.height_ = 1, !.data_ = <<<<1, 1, 1, 1>>>>] }

\* Heightmap::load: the Heightmap objects it can leave behind
load(h, file) ==
    LET buf == file.bytes
        fileSize == Len(buf)
        littleEndian == buf[1] = 73 /\ buf[2] = 73
        ifdOff == u32(buf, littleEndian, 4)
        numEntries == u16(buf, littleEndian, ifdOff)
        t == ScanEntries(buf, littleEndian, ifdOff, numEntries)
        sized == Resize(h.data_, t.width * t.height)
        strips == ReadStrips(buf, littleEndian, t, 0, 0, sized)
        finish(data) ==
            [h EXCEPT !.ret = "true", !.width_ = t.width, !.height_ = t.height,
                      !.data_ = IF littleEndian THEN data
                                ELSE [k \in 1 .. Len(data) |-> swapFloat(data[k])]]
    IN IF ~file.exists THEN {[h EXCEPT !.ret = "false"]}
       ELSE IF fileSize < 8 THEN {[h EXCEPT !.ret = "false"]}
       ELSE IF ~(buf[1] = 73 /\ buf[2] = 73) /\ ~(buf[1] = 77 /\ buf[2] = 77)
            THEN {[h EXCEPT !.ret = "false"]}
       ELSE IF u16(buf, littleEndian, 2) # 42 THEN {[h EXCEPT !.ret = "false"]}
       ELSE IF ~Readable(buf, ifdOff, 2) THEN OutOfBounds(h)
       ELSE IF ~Readable(buf, ifdOff + 2, 12 * numEntries) THEN OutOfBounds(h)
       ELSE IF t.width = 0 \/ t.height = 0 THEN {[h EXCEPT !.ret = "false"]}
       ELSE IF t.stripOffsetCount <= 1
            THEN (IF ~Readable(buf, t.stripOffsetsValue, t.width * t.height * 4)
                  THEN OutOfBounds(h)
                  ELSE {finish(CopyFloats(sized, 0, buf, t.stripOffsetsValue,
                                          t.width * t.height))})
       ELSE IF strips.ub THEN OutOfBounds(h)
       ELSE {finish(strips.data)}

\* Heightmap::sample, in units of 1/32 metre; lat is given in quarters of pi
\* (-2 .. 2) and lon in quarters of pi (-4 .. 4), so that the pixel
\* coordinates are px = px8 / 8 and py = py4 / 4
sample(h, lat, lon) ==
    IF h.data_ = <<>> THEN 0
    ELSE LET py4a == (2 - lat) * (h.height_ - 1)
             px8a == (lon + 4) * (h.width_ - 1)
             px8 == IF px8a < 0 THEN px8a + 8 * h.width_
                    ELSE IF px8a >= 8 * h.width_ THEN px8a - 8 * h.width_ ELSE px8a
             py4 == IF py4a < 0 THEN 0
                    ELSE IF py4a > 4 * (h.height_ - 1) THEN 4 * (h.height_ - 1) ELSE py4a
             x0 == px8 \div 8
             y0 == py4 \div 4
             x1 == (x0 + 1) % h.width_
             y1 == IF y0 + 1 < h.height_ - 1 THEN y0 + 1 ELSE h.height_ - 1
             fx8 == px8 - 8 * x0
             fy4 == py4 - 4 * y0
             v00 == FloatValue(h.data_[y0 * h.width_ + x0 + 1])
             v10 == FloatValue(h.data_[y0 * h.width_ + x1 + 1])
             v01 == FloatValue(h.data_[y1 * h.width_ + x0 + 1])
             v11 == FloatValue(h.data_[y1 * h.width_ + x1 + 1])
             top8 == v00 * (8 - fx8) + v10 * fx8
             bot8 == v01 * (8 - fx8) + v11 * fx8
         IN (top8 * (4 - fy4) + bot8 * fy4) * 1000

(* ------------------------------------------------------------------ *)
(* ChunkGenerator::generate                                            *)
(*   u and v of a grid vertex are kept as numerators over gridSize - 1 *)
(*   positions are in metres                                           *)
(* ------------------------------------------------------------------ *)
\* uint32_t arithmetic
Word(n) == n % Pow2(GridWordBits)

\* glm::vec3(x) of one double: the nearest float
RECURSIVE Quantum(_)
Quantum(a) == IF a < Pow2(FloatBits) THEN 1 ELSE 2 * Quantum(a \div 2)
\* a conversion that keeps four bits fewer
NarrowCoarse(x) ==
    LET q == 16 * Quantum(Abs(x))
        r == ((Abs(x) + q \div 2) \div q) * q
    IN IF x < 0 THEN -r ELSE r

Narrow(x) ==
    LET q == Quantum(Abs(x))
        r == ((Abs(x) + q \div 2) \div q) * q
    IN IF x < 0 THEN -r ELSE r

\* sampleWorldPos(face, un / den, vn / den, radius) with the flat heightfield
sampleWorldPos(face, un, vn, den) ==
    LET a == facePointToSphere(face, 0, 0)
        b == VSub(facePointToSphere(face, 1, 0), a)
        c == VSub(facePointToSphere(face, 0, 1), a)
    IN [i \in 1 .. 3 |->
           ((den * a[i] + un * b[i] + vn * c[i]) * Radius * 1000) \div (UvOne * den)]

\* addSkirt: the vertices and indices after the skirt of one edge; ub is set
\* when data.vertices is read outside its size
addSkirt(data, startIdx, stride, count, flip, interiorOffset) ==
    LET skirtBase == Len(data.vertices)
        edgeIdx(k) == Word(startIdx + k * stride)
        interiorIdx(k) == Word(edgeIdx(k) + interiorOffset)
        outside == \E k \in 0 .. count - 1 :
                      edgeIdx(k) >= skirtBase + k \/ interiorIdx(k) >= skirtBase + k
        sv == [k \in 1 .. count |->
                  [kind |-> "skirt", edge |-> edgeIdx(k - 1), interior |-> interiorIdx(k - 1)]]
        tri(k) == LET e0 == Word(startIdx + k * stride)
                      e1 == Word(startIdx + (k + 1) * stride)
                      s0 == skirtBase + k
                      s1 == skirtBase + k + 1
                  IN IF flip THEN <<e0, e1, s0, s0, e1, s1>> ELSE <<e0, s0, e1, e1, s0, s1>>
        ix == [q \in 1 .. 6 * (count - 1) |-> tri((q - 1) \div 6)[((q - 1) % 6) + 1]]
    IN [data EXCEPT !.vertices = @ \o sv, !.indices = @ \o ix, !.ub = @ \/ outside]

\* ChunkGenerator::generate: what a call can come to.  ret is "ok" when a
\* ChunkMeshData is returned, "bad_alloc" when the index vector outgrows memory,
\* "crash" when a read or write outside data.vertices kills the process.
\* vertCount = gridSize * gridSize is a uint32_t: when the product wraps the
\* vector is shorter than the grid and the vertex loop writes outside it
generate(faceIndex, u0, u1, v0, v1, gridSize) ==
    LET den == Word(gridSize - 1)
        quads == Word(gridSize - 1)
        center == sampleWorldPos(faceIndex, u0 + u1, v0 + v1, 2)
        vertex(idx) ==
            LET i == idx % gridSize
                j == idx \div gridSize
                un == u0 * den + i * (u1 - u0)
                vn == v0 * den + j * (v1 - v0)
            IN [kind |-> "grid", u |-> <<un, den>>, v |-> <<vn, den>>,
                position |-> IF den = 0 THEN <<>>
                             ELSE [a \in 1 .. 3 |->
                                      Narrow(sampleWorldPos(faceIndex, un, vn, den)[a]
                                               - center[a])]]
        quad(cell) == LET i == cell % quads
                          j == cell \div quads
                          tl == Word(j * gridSize + i)
                          tr == Word(tl + 1)
                          bl == Word((j + 1) * gridSize + i)
                          br == Word(bl + 1)
                      IN <<tl, bl, tr, tr, bl, br>>
        vertCount == Word(gridSize * gridSize)
        grid == [args |-> <<faceIndex, u0, u1, v0, v1, gridSize>>, ret |-> "ok",
                 worldCenter |-> center,
                 vertices |-> [k \in 1 .. vertCount |-> vertex(k - 1)],
                 indices |-> [q \in 1 .. 6 * quads * quads |->
                                 quad((q - 1) \div 6)[((q - 1) % 6) + 1]],
                 ub |-> \E j, i \in 0 .. gridSize - 1 : Word(j * gridSize + i) >= vertCount]
        bottom == addSkirt(grid, 0, 1, gridSize, FALSE, gridSize)
        top == addSkirt(bottom, Word((gridSize - 1) * gridSize), 1, gridSize, TRUE, -gridSize)
        left == addSkirt(top, 0, gridSize, gridSize, TRUE, 1)
        right == addSkirt(left, Word(gridSize - 1), gridSize, gridSize, FALSE, -1)
    IN IF 6 * quads * quads > MaxElements
       THEN {[args |-> <<faceIndex, u0, u1, v0, v1, gridSize>>, ret |-> "bad_alloc",
              worldCenter |-> center, vertices |-> <<>>, indices |-> <<>>, ub |-> FALSE]}
       ELSE IF right.ub THEN {right, [right EXCEPT !.ret = "crash"]}
       ELSE {right}

(* ------------------------------------------------------------------ *)
(* Buffer::createRaw, CommandPool::beginOneShot, endOneShot,           *)
(* endOneShotWithFence                                                 *)
(*   handles are 1 .. MaxHandles; 0 is the value of a VkCommandBuffer  *)
(*   that was never written                                            *)
(* ------------------------------------------------------------------ *)
VkResults == {"VK_SUCCESS", "VK_ERROR_OUT_OF_DEVICE_MEMORY"}

\* buffers, memories, fences: live device objects; held: Buffer objects
\* returned to callers; cmds: command buffers being recorded; call, failed,
\* ret, invalid: the last call, whether a device function in it reported a
\* failure, how it ended, and whether it went on with a handle it never got
NoDevice ==
    [buffers |-> {}, memories |-> {}, held |-> {}, cmds |-> {}, fences |-> {},
     call |-> "none", failed |-> "none", ret |-> "none", invalid |-> FALSE]

FreeHandle(used) == CHOOSE h \in 1 .. MaxHandles : h \notin used

\* Buffer::cleanup of a Buffer whose buffer_ is b and whose memory_ is set when
\* b is in memories
cleanup(d, b) ==
    [d EXCEPT !.buffers = @ \ {b}, !.memories = @ \ {b}, !.held = @ \ {b}]

createRaw(d, rBuffer, rMemory) ==
    LET b == FreeHandle(d.buffers)
        created == [d EXCEPT !.buffers = @ \cup {b}, !.call = "createRaw", !.invalid = FALSE]
    IN IF rBuffer # "VK_SUCCESS"
       THEN [d EXCEPT !.call = "createRaw", !.invalid = FALSE,
                      !.failed = "vkCreateBuffer", !.ret = "throw"]
       ELSE IF rMemory # "VK_SUCCESS"
       THEN [cleanup(created, b) EXCEPT !.failed = "vkAllocateMemory", !.ret = "throw"]
       ELSE [created EXCEPT !.memories = @ \cup {b}, !.held = @ \cup {b},
                            !.failed = "none", !.ret = "ok"]

\* the result of vkAllocateCommandBuffers is dropped: on a failure cmd keeps
\* its indeterminate value and is handed to vkBeginCommandBuffer, which may
\* kill the process or return
beginOneShot(d, rAlloc) ==
    IF rAlloc = "VK_SUCCESS"
    THEN {[d EXCEPT !.cmds = @ \cup {FreeHandle(d.cmds)}, !.call = "beginOneShot",
                    !.failed = "none", !.ret = "ok", !.invalid = FALSE]}
    ELSE {[d EXCEPT !.cmds = @ \cup {0}, !.call = "beginOneShot",
                    !.failed = "vkAllocateCommandBuffers", !.ret = r, !.invalid = TRUE]
          : r \in {"ok", "crash"}}

endOneShotOf(d, cmd) ==
    [d EXCEPT !.cmds = @ \ {cmd}, !.call = "endOneShot", !.failed = "none",
              !.ret = "ok", !.invalid = (cmd = 0)]

endOneShotWithFence(d, cmd, rFence) ==
    IF rFence # "VK_SUCCESS"
    THEN [d EXCEPT !.call = "endOneShotWithFence", !.failed = "vkCreateFence",
                   !.ret = "throw", !.invalid = (cmd = 0)]
    ELSE [d EXCEPT !.cmds = @ \ {cmd}, !.fences = @ \cup {FreeHandle(d.fences)},
                   !.call = "endOneShotWithFence", !.failed = "none", !.ret = "ok",
                   !.invalid = (cmd = 0)]

EmptyLog ==
    [split |-> {}, merged |-> {}, created |-> 0, visited |-> <<>>, startEligible |-> {},
     inFlightReads |-> {}, released |-> {}, deniedBefore |-> {}]

NoCamera == [pos |-> <<0, 0, 0>>, scale |-> 0, planes |-> WideFrustum]

(* ------------------------------------------------------------------ *)
(* The frame loop of main(): fences and command buffers of the slots   *)
(* ------------------------------------------------------------------ *)
MaxIterations ==
    6

\* what one iteration of the frame loop did
NoIteration ==
    [path |-> "none", slot |-> 0, awaited |-> FALSE, reset |-> FALSE,
     fenceSeen |-> FALSE, cmdBefore |-> "initial", submitted |-> FALSE,
     advanced |-> FALSE]

\* Sync::Sync creates every in-flight fence signalled; currentFrame starts at 0
LoopStart ==
    [currentFrame |-> 0,
     fence |-> [s \in Slots |-> TRUE],
     cmd |-> [s \in Slots |-> "initial"],
     pending |-> <<>>,
     state |-> "running",
     iterations |-> 0,
     last |-> NoIteration]

AcquireResults ==
    {"VK_SUCCESS", "VK_SUBOPTIMAL_KHR", "VK_TIMEOUT", "VK_NOT_READY",
     "VK_ERROR_OUT_OF_DATE_KHR"}

PresentResults == {"VK_SUCCESS", "VK_SUBOPTIMAL_KHR", "VK_ERROR_OUT_OF_DATE_KHR"}

\* the inputs of one iteration: the close event, the results of acquire and
\* present, whether swapchain.recreate() succeeds, whether the window was
\* resized, whether moon.update() throws
LoopInputs ==
    [closed : BOOLEAN, acquire : AcquireResults, recreated : BOOLEAN,
     thrown : BOOLEAN, present : PresentResults, resized : BOOLEAN]

\* mutant of waitForFence: the wait never reports a timeout
waitForFenceNoTimeout(l) == "VK_SUCCESS"

\* vkWaitForFences(fence of currentFrame, 100 ms): the wait ends with success
\* when the fence is signalled and with VK_TIMEOUT when it still is not
waitForFence(l) ==
    IF l.fence[l.currentFrame] THEN "VK_SUCCESS" ELSE "VK_TIMEOUT"

\* the start of an iteration's record
Entered(l, path) ==
    [NoIteration EXCEPT !.path = path, !.slot = l.currentFrame,
                        !.awaited = (l.currentFrame \in Range(l.pending))]

\* continue: the next iteration starts with the same slot
continueLoop(l, path) ==
    [l EXCEPT !.last = Entered(l, path), !.iterations = @ + 1]

\* break: the loop is left
breakLoop(l, path) ==
    [l EXCEPT !.last = Entered(l, path), !.iterations = @ + 1, !.state = "left"]

\* vkResetFences, vkResetCommandBuffer, vkBeginCommandBuffer and the recording
resetAndRecord(l) ==
    [l EXCEPT !.fence[l.currentFrame] = FALSE,
              !.cmd[l.currentFrame] = "recording",
              !.iterations = @ + 1,
              !.last = [Entered(l, "frame") EXCEPT
                            !.reset = TRUE,
                            !.fenceSeen = l.fence[l.currentFrame],
                            !.cmdBefore = l.cmd[l.currentFrame]]]

\* vkEndCommandBuffer and vkQueueSubmit with the fence of currentFrame
submitFrame(l) ==
    [l EXCEPT !.pending = Append(@, l.currentFrame),
              !.cmd[l.currentFrame] = "pending",
              !.last.submitted = TRUE]

\* currentFrame = (currentFrame + 1) % MAX_FRAMES_IN_FLIGHT
advanceFrame(l) ==
    [l EXCEPT !.currentFrame = (@ + 1) % MAX_FRAMES_IN_FLIGHT,
              !.last.advanced = TRUE]

\* mutant of iteration: the fence is reset right after the wait, before the
\* image is acquired
iterationResetFirst(l, in) ==
    IF in.closed THEN breakLoop(l, "closed")
    ELSE IF waitForFence(l) = "VK_TIMEOUT" THEN continueLoop(l, "fence_timeout")
    ELSE LET f == [l EXCEPT !.fence[l.currentFrame] = FALSE]
         IN IF in.acquire = "VK_ERROR_OUT_OF_DATE_KHR"
            THEN IF ~in.recreated THEN breakLoop(f, "acquire_out_of_date")
                 ELSE continueLoop(f, "acquire_out_of_date")
            ELSE IF in.acquire \in {"VK_TIMEOUT", "VK_NOT_READY"}
            THEN continueLoop(f, "acquire_timeout")
            ELSE LET r == resetAndRecord(l)
                 IN IF in.thrown THEN [r EXCEPT !.state = "terminated"]
                    ELSE advanceFrame(submitFrame(r))

\* one iteration of the while loop of main()
iteration(l, in) ==
    IF in.closed THEN breakLoop(l, "closed")
    ELSE IF waitForFence(l) = "VK_TIMEOUT" THEN continueLoop(l, "fence_timeout")
    ELSE IF in.acquire = "VK_ERROR_OUT_OF_DATE_KHR"
    THEN IF ~in.recreated THEN breakLoop(l, "acquire_out_of_date")
         ELSE continueLoop(l, "acquire_out_of_date")
    ELSE IF in.acquire \in {"VK_TIMEOUT", "VK_NOT_READY"}
    THEN continueLoop(l, "acquire_timeout")
    ELSE LET r == resetAndRecord(l)
         IN \* moon.update() throws and main has no handler: the process ends
            IF in.thrown THEN [r EXCEPT !.state = "terminated"]
            ELSE LET s == submitFrame(r)
                 IN IF (in.present \in {"VK_ERROR_OUT_OF_DATE_KHR", "VK_SUBOPTIMAL_KHR"}
                           \/ in.resized) /\ ~in.recreated
                    THEN [s EXCEPT !.state = "left"]
                    ELSE advanceFrame(s)

\* the device finishes the oldest submission of the graphics queue: its fence
\* is signalled and its command buffer is executable again
deviceExecutes(l) ==
    LET s == Head(l.pending)
    IN [l EXCEPT !.pending = Tail(@), !.fence[s] = TRUE, !.cmd[s] = "executable"]

(* ------------------------------------------------------------------ *)
(* SimState and Physics: lengths in cm, speeds in cm/s, accelerations  *)
(* in cm/s^2, times in 1/100 s, masses in kg, throttle in percent      *)
(* ------------------------------------------------------------------ *)
FlightPhases == {"Orbit", "Descent", "PoweredDescent", "Terminal", "Landed", "Crashed"}

\* SimState's default member initialisers.  The model works in the plane of the
\* position and velocity vectors: position is the distance from the Moon's
\* centre, velocity is <<radial, tangential>>, orientation is the angle of the
\* body +Y axis from the local vertical in quarter turns
DefaultSimState ==
    [position |-> 0, velocity |-> <<0, 0>>, orientation |-> 0, angularVelocity |-> 0,
     dryMass |-> 85000, fuelMass |-> 200000, specificImpulse |-> 380,
     maxThrust |-> 4400000, throttle |-> 0, torqueInput |-> 0,
     phase |-> "Orbit", altitude |-> 0, surfaceSpeed |-> 0, verticalSpeed |-> 0,
     missionTime |-> 0]

\* simState before main() places the lander; state is simState, before is
\* simState at the entry of the last step() and dt its time step, terrain is
\* what terrainQuery_ returns under the lander
NoSim ==
    [state |-> DefaultSimState, before |-> DefaultSimState, dt |-> 0, calls |-> 0,
     placed |-> FALSE, terrain |-> 0]

\* util::LUNAR_RADIUS, in cm
LUNAR_RADIUS ==
    173740000
\* util::LUNAR_GM, in km^3/s^2
LUNAR_GM ==
    4903
\* Physics::G0, in cm/s^2
G0 ==
    981
\* Physics::LANDING_SPEED, in cm/s
LANDING_SPEED ==
    400
\* Physics::LANDING_HORIZ_SPEED, in cm/s
LANDING_HORIZ_SPEED ==
    200
\* step(): dt = min(dt, 0.05), in 1/100 s
DtMax ==
    5
\* a full turn of the orientation angle, in mrad
FullTurn ==
    6283

Absorbing == {"Landed", "Crashed"}

\* value * dt, with dt in 1/100 s
TimesDt(value, dt) == (value * dt) \div 100

\* Physics::computeGravity: -dir * GM / r^2, zero within 1 m of the centre
computeGravity(position) ==
    IF position < 100 THEN <<0, 0>>
    ELSE LET km == Max2(position \div 100000, 1)
         IN <<-((LUNAR_GM * 100000) \div (km * km)), 0>>

\* state.orientation * (0, 1, 0): the body +Y axis, to the nearest quarter turn
ThrustDir(orientation) ==
    LET q == ((orientation + (FullTurn \div 8)) \div (FullTurn \div 4)) % 4
    IN <<(<<1, 0, -1, 0>>)[q + 1], (<<0, 1, 0, -1>>)[q + 1]>>

\* SimState::totalMass
totalMass(state) == state.dryMass + state.fuelMass

\* Physics::computeThrust
computeThrust(state) ==
    IF state.throttle <= 0 \/ state.fuelMass <= 0 THEN <<0, 0>>
    ELSE LET force == (state.throttle * state.maxThrust) \div 100
             a == (force * 100) \div totalMass(state)
             dir == ThrustDir(state.orientation)
         IN <<dir[1] * a, dir[2] * a>>

\* Physics::consumeFuel
consumeFuel(state, dt) ==
    IF state.throttle <= 0 \/ state.fuelMass <= 0 THEN state
    ELSE LET force == (state.throttle * state.maxThrust) \div 100
             massFlow == (force * 100) \div (state.specificImpulse * G0)
             left == state.fuelMass - TimesDt(massFlow, dt)
         IN [state EXCEPT !.fuelMass = IF left < 0 THEN 0 ELSE left]

\* Physics::deriveFlightData: the radial direction is the first axis of the
\* model's plane
deriveFlightData(state, terrainElev) ==
    [state EXCEPT !.verticalSpeed = state.velocity[1],
                  !.surfaceSpeed = Abs(state.velocity[2]),
                  !.altitude = state.position - LUNAR_RADIUS - terrainElev]

\* mutant of checkCollision: the landing test looks at the vertical speed only
checkCollisionVerticalOnly(state, terrainElev) ==
    IF state.altitude > 0 THEN state
    ELSE IF state.phase \in Absorbing THEN state
    ELSE [state EXCEPT !.position = LUNAR_RADIUS + terrainElev,
                       !.altitude = 0,
                       !.phase = IF Abs(state.verticalSpeed) < LANDING_SPEED
                                 THEN "Landed" ELSE "Crashed",
                       !.velocity = <<0, 0>>,
                       !.angularVelocity = 0]

\* Physics::checkCollision
checkCollision(state, terrainElev) ==
    IF state.altitude > 0 THEN state
    ELSE IF state.phase \in Absorbing THEN state
    ELSE LET safeLanding == /\ Abs(state.verticalSpeed) < LANDING_SPEED
                            /\ state.surfaceSpeed < LANDING_HORIZ_SPEED
         IN [state EXCEPT !.position = LUNAR_RADIUS + terrainElev,
                          !.altitude = 0,
                          !.phase = IF safeLanding THEN "Landed" ELSE "Crashed",
                          !.velocity = <<0, 0>>,
                          !.angularVelocity = 0]

\* step(): the flight phase from altitude and throttle
updatePhase(state) ==
    IF state.phase \in Absorbing THEN state
    ELSE IF state.throttle > 0
    THEN [state EXCEPT !.phase = IF state.altitude < 100000 THEN "Terminal"
                                 ELSE "PoweredDescent"]
    ELSE IF state.verticalSpeed < -100 THEN [state EXCEPT !.phase = "Descent"]
    ELSE [state EXCEPT !.phase = "Orbit"]

\* step(): the integration of motion and orientation
integrate(state, dt) ==
    LET gravity == computeGravity(state.position)
        thrustAccel == computeThrust(state)
        velocity == <<state.velocity[1] + TimesDt(gravity[1] + thrustAccel[1], dt),
                      state.velocity[2] + TimesDt(gravity[2] + thrustAccel[2], dt)>>
        turning == Abs(state.angularVelocity + state.torqueInput) > 0
        angVel == state.angularVelocity + TimesDt(state.torqueInput, dt)
    IN [state EXCEPT !.missionTime = @ + dt,
                     !.velocity = velocity,
                     !.position = @ + TimesDt(velocity[1], dt),
                     !.angularVelocity = IF turning THEN angVel ELSE @,
                     !.orientation = IF turning
                                     THEN (@ + TimesDt(angVel, dt)) % FullTurn
                                     ELSE @]

\* mutant of step: no early return in the phases Landed and Crashed
stepAlways(state, dt, terrainElev) ==
    LET clamped == IF dt < DtMax THEN dt ELSE DtMax
        moved == consumeFuel(integrate(state, clamped), clamped)
    IN updatePhase(checkCollision(deriveFlightData(moved, terrainElev), terrainElev))

\* Physics::step
step(state, dt, terrainElev) ==
    IF state.phase \in Absorbing THEN state
    ELSE LET clamped == IF dt < DtMax THEN dt ELSE DtMax
             moved == consumeFuel(integrate(state, clamped), clamped)
         IN updatePhase(checkCollision(deriveFlightData(moved, terrainElev),
                                       terrainElev))

(* ------------------------------------------------------------------ *)
(* Buffer objects                                                      *)
(* ------------------------------------------------------------------ *)
MaxObjects ==
    3
MaxBuffers ==
    2
MaxOps ==
    5

\* storage in which no Buffer object lives
NoObject == [alive |-> FALSE, buffer_ |-> 0, memory_ |-> 0, size_ |-> 0]

\* Buffer() = default: VK_NULL_HANDLE handles, size 0
DefaultBuffer == [alive |-> TRUE, buffer_ |-> 0, memory_ |-> 0, size_ |-> 0]

NoCall ==
    [op |-> "none", self |-> 0, other |-> 0, hadBuffer |-> 0, hadMemory |-> 0,
     srcBuffer |-> 0, srcMemory |-> 0, destroyed |-> {}, freed |-> {}]

\* no object yet; destroyBuffer and freeMemory are the vkDestroyBuffer and
\* vkFreeMemory calls made so far, as [handle, by, holders]
NoObjects ==
    [bufs |-> [o \in 1 .. MaxObjects |-> NoObject], made |-> 0,
     destroyBuffer |-> <<>>, freeMemory |-> <<>>, ops |-> 0, last |-> NoCall]

\* the objects that live and hold the buffer handle h / the memory handle h
BufferHolders(b, h) == {o \in 1 .. MaxObjects : b.bufs[o].alive /\ b.bufs[o].buffer_ = h}
MemoryHolders(b, h) == {o \in 1 .. MaxObjects : b.bufs[o].alive /\ b.bufs[o].memory_ = h}

\* the record of a call on object self with argument other
Called(b, op, self, other) ==
    [op |-> op, self |-> self, other |-> other,
     hadBuffer |-> b.bufs[self].buffer_, hadMemory |-> b.bufs[self].memory_,
     srcBuffer |-> IF other = 0 THEN 0 ELSE b.bufs[other].buffer_,
     srcMemory |-> IF other = 0 THEN 0 ELSE b.bufs[other].memory_,
     destroyed |-> {}, freed |-> {}]

\* Buffer::cleanup on object o
cleanupObject(b, o) ==
    LET buf == b.bufs[o].buffer_
        mem == b.bufs[o].memory_
    IN [b EXCEPT
          !.destroyBuffer = IF buf # 0
                            THEN Append(@, [handle |-> buf, by |-> o,
                                            holders |-> BufferHolders(b, buf)])
                            ELSE @,
          !.freeMemory = IF mem # 0
                         THEN Append(@, [handle |-> mem, by |-> o,
                                         holders |-> MemoryHolders(b, mem)])
                         ELSE @,
          !.last.destroyed = IF buf # 0 THEN @ \cup {buf} ELSE @,
          !.last.freed = IF mem # 0 THEN @ \cup {mem} ELSE @,
          !.bufs[o].buffer_ = 0,
          !.bufs[o].memory_ = 0]

\* what createRaw returns in storage o: an object with a new buffer and memory
makeBuffer(b, o, size) ==
    [b EXCEPT !.made = @ + 1,
              !.bufs[o] = [alive |-> TRUE, buffer_ |-> b.made + 1,
                           memory_ |-> b.made + 1, size_ |-> size],
              !.last = Called(b, "make", o, 0),
              !.ops = @ + 1]

\* Buffer() = default in storage o
defaultBuffer(b, o) ==
    [b EXCEPT !.bufs[o] = DefaultBuffer, !.last = Called(b, "default", o, 0),
              !.ops = @ + 1]

\* mutant of moveConstruct: the source keeps its handles
moveConstructCopying(b, o, other) ==
    [b EXCEPT !.bufs[o] = [alive |-> TRUE, buffer_ |-> b.bufs[other].buffer_,
                           memory_ |-> b.bufs[other].memory_,
                           size_ |-> b.bufs[other].size_],
              !.last = Called(b, "moveConstruct", o, other),
              !.ops = @ + 1]

\* Buffer::Buffer(Buffer&& other) in storage o
moveConstruct(b, o, other) ==
    [b EXCEPT !.bufs[o] = [alive |-> TRUE, buffer_ |-> b.bufs[other].buffer_,
                           memory_ |-> b.bufs[other].memory_,
                           size_ |-> b.bufs[other].size_],
              !.bufs[other].buffer_ = 0,
              !.bufs[other].memory_ = 0,
              !.bufs[other].size_ = 0,
              !.last = Called(b, "moveConstruct", o, other),
              !.ops = @ + 1]

\* Buffer::operator=(Buffer&& other) on object o
moveAssign(b, o, other) ==
    LET start == [b EXCEPT !.last = Called(b, "moveAssign", o, other), !.ops = @ + 1]
    IN IF o = other THEN start
       ELSE LET c == cleanupObject(start, o)
            IN [c EXCEPT !.bufs[o].buffer_ = c.bufs[other].buffer_,
                         !.bufs[o].memory_ = c.bufs[other].memory_,
                         !.bufs[o].size_ = c.bufs[other].size_,
                         !.bufs[other].buffer_ = 0,
                         !.bufs[other].memory_ = 0,
                         !.bufs[other].size_ = 0]

\* Buffer::release on object o
release(b, o) ==
    [b EXCEPT !.bufs[o].buffer_ = 0, !.bufs[o].memory_ = 0, !.bufs[o].size_ = 0,
              !.last = Called(b, "release", o, 0),
              !.ops = @ + 1]

\* Buffer::~Buffer on object o: cleanup, and the object's life ends
destroyObject(b, o) ==
    LET c == cleanupObject([b EXCEPT !.last = Called(b, "destroy", o, 0),
                                     !.ops = @ + 1], o)
    IN [c EXCEPT !.bufs[o] = NoObject]

Init ==
    /\ nodes = Constructed.nodes
    /\ deferredDestroy_ = Constructed.deferredDestroy_
    /\ batchCount_ = Constructed.batchCount_
    /\ cmdCopies = Constructed.cmdCopies
    /\ queue = Constructed.queue
    /\ inFlight = Constructed.inFlight
    /\ freedInFlight = Constructed.freedInFlight
    /\ staging = Constructed.staging
    /\ history = Constructed.history
    /\ heightmap = NoHeightmap
    /\ meshData = <<>>
    /\ device = NoDevice
    /\ screen = <<>>
    /\ loop = LoopStart
    /\ sim = NoSim
    /\ objects = NoObjects
    /\ activeNodes_ = 0
    /\ splitBudget = 0
    /\ stack = <<>>
    /\ cam = NoCamera
    /\ currentFrame = 0
    /\ pc = "idle"
    /\ frameNo = 0
    /\ log = EmptyLog

(* ------------------------------------------------------------------ *)
(* update(): ordering                                                  *)
(* ------------------------------------------------------------------ *)
\* std::sort of a handful of indices by ascending key (insertion sort: ties keep
\* their index order)
RECURSIVE SortByKey(_, _)
SortByKey(S, key) ==
    IF S = {} THEN <<>>
    ELSE LET m == CHOOSE x \in S : \A y \in S :
                      key[x] < key[y] \/ (key[x] = key[y] /\ x <= y)
         IN <<m>> \o SortByKey(S \ {m}, key)

\* the faces taken farthest first
faceOrderFarthestFirst(ns, camPos) ==
    SortByKey(Faces, [f \in Faces |-> 0 - Length(VSub(ns[<<f>>].worldCenter, camPos))])

\* update(): faceOrder
faceOrder(ns, camPos) ==
    SortByKey(Faces, [f \in Faces |-> Length(VSub(ns[<<f>>].worldCenter, camPos))])

\* the children taken farthest first
childOrderFarthestFirst(ns, p, camPos) ==
    LET present == {i \in Quads : ns[p].children[i + 1]}
    IN SortByKey(present,
                 [i \in present |-> 0 - Length(VSub(ns[ChildPath(p, i)].worldCenter, camPos))])

\* updateNode(): childOrder, restricted to the children that exist
childOrder(ns, p, camPos) ==
    LET present == {i \in Quads : ns[p].children[i + 1]}
    IN SortByKey(present,
                 [i \in present |-> Length(VSub(ns[ChildPath(p, i)].worldCenter, camPos))])

\* only the nearest child is visited
ChildCallsNearestOnly(ns, p, camPos) ==
    LET order == childOrder(ns, p, camPos)
    IN [k \in 1 .. 1 |-> ChildPath(p, order[k])]

ChildCalls(ns, p, camPos) ==
    LET order == childOrder(ns, p, camPos)
    IN [k \in 1 .. Len(order) |-> ChildPath(p, order[k])]

(* ------------------------------------------------------------------ *)
(* updateNode(): split                                                 *)
(* ------------------------------------------------------------------ *)
\* the split branch taken whatever the depth of the leaf
SplitConditionAnyDepth(node, c, budget) ==
    /\ visible(node, c)
    /\ ErrGT(screenError(node, c), SPLIT_THRESHOLD)
    /\ budget >= 4

\* the split branch with a budget of its own for every root
SplitConditionRootsUnbudgeted(node, c, budget) ==
    /\ visible(node, c)
    /\ ErrGT(screenError(node, c), SPLIT_THRESHOLD)
    /\ node.depth < MAX_DEPTH
    /\ (budget >= 4 \/ node.depth = 0)

\* the split branch without the test of the budget
SplitConditionNoBudget(node, c, budget) ==
    /\ visible(node, c)
    /\ ErrGT(screenError(node, c), SPLIT_THRESHOLD)
    /\ node.depth < MAX_DEPTH

\* the split branch taken with nothing left of the budget
SplitConditionBudgetZero(node, c, budget) ==
    /\ visible(node, c)
    /\ ErrGT(screenError(node, c), SPLIT_THRESHOLD)
    /\ node.depth < MAX_DEPTH
    /\ budget >= 0

\* updateNode(): the condition of the split branch
SplitCondition(node, c, budget) ==
    /\ visible(node, c)
    /\ ErrGT(screenError(node, c), SPLIT_THRESHOLD)
    /\ node.depth < MAX_DEPTH
    /\ budget >= 4

\* a split charged for two children only
SpendBudgetTwo(budget) == budget - 2

\* splitBudget -= 4
SpendBudget(budget) == budget - 4

\* the four children of a split, the last of them over the whole width of the
\* parent
ChildNodeWholeWidth(n, i) ==
    LET uMid == (n.u0 + n.u1) \div 2
        vMid == (n.v0 + n.v1) \div 2
    IN CASE i = 0 -> initNode(n.faceIndex, n.u0, uMid, n.v0, vMid, n.depth + 1)
         [] i = 1 -> initNode(n.faceIndex, uMid, n.u1, n.v0, vMid, n.depth + 1)
         [] i = 2 -> initNode(n.faceIndex, n.u0, uMid, vMid, n.v1, n.depth + 1)
         [] i = 3 -> initNode(n.faceIndex, n.u0, n.u1, vMid, n.v1, n.depth + 1)

\* the i-th child region of a split
ChildNode(n, i) ==
    LET uMid == (n.u0 + n.u1) \div 2
        vMid == (n.v0 + n.v1) \div 2
    IN CASE i = 0 -> initNode(n.faceIndex, n.u0, uMid, n.v0, vMid, n.depth + 1)
         [] i = 1 -> initNode(n.faceIndex, uMid, n.u1, n.v0, vMid, n.depth + 1)
         [] i = 2 -> initNode(n.faceIndex, n.u0, uMid, vMid, n.v1, n.depth + 1)
         [] i = 3 -> initNode(n.faceIndex, uMid, n.u1, vMid, n.v1, n.depth + 1)

\* children[0..3] = make_unique<QuadtreeNode>() and the four initNode calls
CreateChildren(S, p) ==
    LET n == S.nodes[p]
        kids == {ChildPath(p, i) : i \in Quads}
    IN [S EXCEPT !.nodes = [q \in (DOMAIN S.nodes) \cup kids |->
            IF q = p THEN [n EXCEPT !.children = AllChildren]
            ELSE IF q \in kids THEN ChildNode(n, q[Len(q)])
            ELSE S.nodes[q]]]

\* generateMeshBatched for children[0] .. children[k-1]
RECURSIVE GenChildren(_, _, _)
GenChildren(S, p, k) ==
    IF k = 0 THEN S
    ELSE CHOOSE R \in { generateMeshBatched(T, ChildPath(p, k - 1)) :
                          T \in {GenChildren(S, p, k - 1)} } : TRUE

\* the mesh queued while the node keeps its pointer to it
DeferMeshKeepsPointer(S0, p) ==
    CHOOSE R \in { IF S.nodes[p].mesh # NoMesh
                   THEN [S EXCEPT !.deferredDestroy_ = Append(@, S.nodes[p].mesh)]
                   ELSE S : S \in {S0} } : TRUE

\* if (node.mesh) deferredDestroy_.push_back(std::move(node.mesh))
DeferMesh(S0, p) ==
    CHOOSE R \in { IF S.nodes[p].mesh # NoMesh
                   THEN [S EXCEPT !.deferredDestroy_ = Append(@, S.nodes[p].mesh),
                                  !.nodes[p].mesh = NoMesh]
                   ELSE S : S \in {S0} } : TRUE

\* the split with the mesh of the parent queued before the children get theirs
SplitPrefixDefersFirst(S, p, k) == GenChildren(DeferMesh(CreateChildren(S, p), p), p, k)

\* the split up to and including the mesh of children[k-1]
SplitPrefix(S, p, k) == GenChildren(CreateChildren(S, p), p, k)

\* the split that leaves children[3] without a mesh
SplitNodeThreeMeshes(S, p) == DeferMesh(SplitPrefix(S, p, 3), p)

\* the whole split of the node at p
SplitNode(S, p) == DeferMesh(SplitPrefix(S, p, 4), p)

(* ------------------------------------------------------------------ *)
(* updateNode(): merge                                                 *)
(* ------------------------------------------------------------------ *)
IsPrefix(p, q) == Len(p) <= Len(q) /\ SubSeq(q, 1, Len(p)) = p

\* the merge branch taken for visible nodes only
MergeConditionVisibleOnly(ns, p, c) ==
    /\ visible(ns[p], c)
    /\ \A i \in Quads : ns[p].children[i + 1] /\ isLeaf(ns[ChildPath(p, i)])
    /\ \A i \in Quads : ErrLT(screenError(ns[ChildPath(p, i)], c), MERGE_THRESHOLD)

\* updateNode(): allChildrenLeaves && maxChildError < MERGE_THRESHOLD
MergeCondition(ns, p, c) ==
    /\ \A i \in Quads : ns[p].children[i + 1] /\ isLeaf(ns[ChildPath(p, i)])
    /\ LET err(i) == screenError(ns[ChildPath(p, i)], c)
           worst == CHOOSE i \in Quads : \A j \in Quads : ~ErrLess(err(i), err(j))
       IN ErrLT(err(worst), MERGE_THRESHOLD)

\* child.reset(): the child node and everything below it is destroyed
ResetChild(S0, p, i) ==
    CHOOSE R \in
        { [S EXCEPT !.nodes = [q \in {r \in DOMAIN S.nodes : ~IsPrefix(ChildPath(p, i), r)} |->
                                  IF q = p THEN [S.nodes[p] EXCEPT !.children[i + 1] = FALSE]
                                  ELSE S.nodes[q]]] : S \in {S0} } : TRUE

\* the loop over node.children of the merge branch, for children[0] .. children[k-1]
RECURSIVE DropChildren(_, _, _)
DropChildren(S, p, k) ==
    IF k = 0 THEN S
    ELSE CHOOSE R \in { IF T.nodes[p].children[k]
                        THEN ResetChild(DeferMesh(T, ChildPath(p, k - 1)), p, k - 1)
                        ELSE T : T \in {DropChildren(S, p, k - 1)} } : TRUE

\* the merge with the loop over the children stopping one short
MergeNodeKeepsLast(S, p) ==
    DropChildren(IF ~hasMesh(S.nodes[p]) THEN generateMeshBatched(S, p) ELSE S, p, 3)

\* the merge without a mesh for the node
MergeNodeWithoutMesh(S, p) == DropChildren(S, p, 4)

\* the whole merge of the node at p
MergeNode(S, p) ==
    DropChildren(IF ~hasMesh(S.nodes[p]) THEN generateMeshBatched(S, p) ELSE S, p, 4)

(* ------------------------------------------------------------------ *)
(* draw()                                                              *)
(* ------------------------------------------------------------------ *)
\* drawNode() that goes down to the leaves whatever the frustum test of the
\* interior nodes says
RECURSIVE drawNodeThroughCulled(_, _, _)
drawNodeThroughCulled(ns, p, c) ==
    IF isLeaf(ns[p])
    THEN (IF visible(ns[p], c) /\ hasMesh(ns[p]) THEN {ns[p].mesh} ELSE {})
    ELSE UNION {drawNodeThroughCulled(ns, ChildPath(p, i), c) :
                   i \in {j \in Quads : ns[p].children[j + 1]}}

\* drawNode(): the meshes drawn below the node at p
RECURSIVE drawNode(_, _, _)
drawNode(ns, p, c) ==
    IF ~visible(ns[p], c) THEN {}
    ELSE IF isLeaf(ns[p])
         THEN (IF hasMesh(ns[p]) THEN {ns[p].mesh} ELSE {})
         ELSE UNION {drawNode(ns, ChildPath(p, i), c) : i \in {j \in Quads : ns[p].children[j + 1]}}

draw(ns, c) == UNION {drawNode(ns, <<f>>, c) : f \in Faces}

\* drawNode() that tests the frustum at the leaves only
RECURSIVE drawNodeCallsLeafTestOnly(_, _, _)
drawNodeCallsLeafTestOnly(ns, p, c) ==
    IF isLeaf(ns[p])
    THEN (IF visible(ns[p], c) /\ hasMesh(ns[p]) THEN <<p>> ELSE <<>>)
    ELSE LET sub(i) == IF ns[p].children[i + 1]
                       THEN drawNodeCallsLeafTestOnly(ns, ChildPath(p, i), c)
                       ELSE <<>>
         IN sub(0) \o sub(1) \o sub(2) \o sub(3)

\* drawNode(): the nodes below p for which vkCmdPushConstants and mesh->draw
\* are recorded, in the order of the calls
RECURSIVE drawNodeCalls(_, _, _)
drawNodeCalls(ns, p, c) ==
    IF ~visible(ns[p], c) THEN <<>>
    ELSE IF isLeaf(ns[p])
         THEN (IF hasMesh(ns[p]) THEN <<p>> ELSE <<>>)
         ELSE LET sub(i) == IF ns[p].children[i + 1]
                            THEN drawNodeCalls(ns, ChildPath(p, i), c)
                            ELSE <<>>
              IN sub(0) \o sub(1) \o sub(2) \o sub(3)

\* draw(): the calls recorded over the six roots
drawCalls(ns, c) ==
    drawNodeCalls(ns, <<0>>, c) \o drawNodeCalls(ns, <<1>>, c) \o drawNodeCalls(ns, <<2>>, c)
      \o drawNodeCalls(ns, <<3>>, c) \o drawNodeCalls(ns, <<4>>, c)
      \o drawNodeCalls(ns, <<5>>, c)

(* ------------------------------------------------------------------ *)
(* Actions                                                             *)
(* ------------------------------------------------------------------ *)
Top == Head(stack)
Visiting == pc = "update" /\ stack # <<>>

\* Leaves that meet the split rule apart from the budget
Eligible(ns, c) ==
    {p \in DOMAIN ns :
        /\ isLeaf(ns[p])
        /\ visible(ns[p], c)
        /\ ErrGT(screenError(ns[p], c), SPLIT_THRESHOLD)
        /\ ns[p].depth < MAX_DEPTH}

\* Leaves that the update() recorded in lg took through the else branch of
\* updateNode although they met the split rule apart from the budget
DeniedLeaves(ns, c, lg) ==
    {p \in Range(lg.visited) \cap Eligible(ns, c) : p \notin lg.merged}

\* main(): one iteration of the frame loop up to the call of moon.update(), and
\* update() up to its loop over faceOrder.  A fence or acquire timeout leaves the
\* state as it is (continue).
BeginFrame(c) ==
    /\ pc = "idle"
    /\ frameNo < MaxFrames
    /\ inFlight[currentFrame]
    /\ inFlight' = [inFlight EXCEPT ![currentFrame] = FALSE]
    /\ frameNo' = frameNo + 1
    /\ cam' = c
    /\ activeNodes_' = 0
    /\ batchCount_' = 0
    /\ cmdCopies' = {}
    /\ splitBudget' = MAX_SPLITS_PER_FRAME
    /\ stack' = [k \in 1 .. 6 |-> <<faceOrder(nodes, c.pos)[k]>>]
    /\ pc' = "update"
    /\ log' = [EmptyLog EXCEPT !.startEligible = Eligible(nodes, c),
                               !.inFlightReads = QueueMeshes(queue),
                               !.deniedBefore = DeniedLeaves(nodes, cam, log)]
    /\ \E S \in {StagingBegin(World, MESHES_PER_BATCH * BYTES_PER_MESH)} :
          /\ staging' = S.staging
          /\ history' = [S.history EXCEPT !.transfers = <<>>]
    /\ UNCHANGED <<nodes, deferredDestroy_, queue, currentFrame, freedInFlight,
                   heightmap, meshData, device, screen, loop, sim, objects>>

\* updateNode() on a leaf: the split branch, then the calls on the children
SplitLeaf ==
    /\ Visiting
    /\ isLeaf(nodes[Top])
    /\ SplitCondition(nodes[Top], cam, splitBudget)
    /\ \E S \in {SplitNode(World, Top)} :
          /\ Install(S)
          /\ splitBudget' = SpendBudget(splitBudget)
          /\ stack' = ChildCalls(S.nodes, Top, cam.pos) \o Tail(stack)
          /\ log' = [log EXCEPT !.split = @ \cup {Top},
                                !.visited = Append(@, Top),
                                !.created = @ + Cardinality((DOMAIN S.nodes) \ DOMAIN nodes)]
    /\ UNCHANGED <<activeNodes_, cam, currentFrame, pc, frameNo,
                   heightmap, meshData, device, screen, loop, sim, objects>>

\* updateNode() on a leaf: the split branch when the device refuses the mesh of
\* children[k] (Buffer::createRaw throws; nothing catches it)
SplitFails(k) ==
    /\ Visiting
    /\ isLeaf(nodes[Top])
    /\ SplitCondition(nodes[Top], cam, splitBudget)
    /\ \E S \in {SplitPrefix(World, Top, k)} :
          /\ Install(S)
          /\ log' = [log EXCEPT !.created = @ + Cardinality((DOMAIN S.nodes) \ DOMAIN nodes),
                                !.visited = Append(@, Top)]
    /\ pc' = "aborted"
    /\ UNCHANGED <<activeNodes_, splitBudget, stack, cam, currentFrame, frameNo,
                   heightmap, meshData, device, screen, loop, sim, objects>>

\* the else branch of a leaf without the count
KeepLeafUncounted ==
    /\ Visiting
    /\ isLeaf(nodes[Top])
    /\ ~SplitCondition(nodes[Top], cam, splitBudget)
    /\ stack' = Tail(stack)
    /\ log' = [log EXCEPT !.visited = Append(@, Top)]
    /\ UNCHANGED <<nodes, deferredDestroy_, activeNodes_, batchCount_, splitBudget, cam,
                   cmdCopies, queue, inFlight, currentFrame, pc, frameNo, freedInFlight,
                   staging, history, heightmap, meshData, device, screen, loop, sim, objects>>

\* updateNode() on a leaf: the else branch
KeepLeaf ==
    /\ Visiting
    /\ isLeaf(nodes[Top])
    /\ ~SplitCondition(nodes[Top], cam, splitBudget)
    /\ activeNodes_' = activeNodes_ + 1
    /\ stack' = Tail(stack)
    /\ log' = [log EXCEPT !.visited = Append(@, Top)]
    /\ UNCHANGED <<nodes, deferredDestroy_, batchCount_, splitBudget, cam, cmdCopies, queue,
                   inFlight, currentFrame, pc, frameNo, freedInFlight, staging, history,
                   heightmap, meshData, device, screen, loop, sim, objects>>

\* updateNode() on an interior node: the merge branch
MergeChildren ==
    /\ Visiting
    /\ ~isLeaf(nodes[Top])
    /\ MergeCondition(nodes, Top, cam)
    /\ \E S \in {MergeNode(World, Top)} : Install(S)
    /\ activeNodes_' = activeNodes_ + 1
    /\ stack' = Tail(stack)
    /\ log' = [log EXCEPT !.merged = @ \cup {Top}, !.visited = Append(@, Top)]
    /\ UNCHANGED <<splitBudget, cam, currentFrame, pc, frameNo,
                   heightmap, meshData, device, screen, loop, sim, objects>>

\* updateNode() on an interior node: the merge branch when the device refuses the
\* mesh of the node
MergeFails ==
    /\ Visiting
    /\ ~isLeaf(nodes[Top])
    /\ MergeCondition(nodes, Top, cam)
    /\ ~hasMesh(nodes[Top])
    /\ pc' = "aborted"
    /\ log' = [log EXCEPT !.visited = Append(@, Top)]
    /\ UNCHANGED <<nodes, deferredDestroy_, activeNodes_, batchCount_, splitBudget, stack, cam,
                   cmdCopies, queue, inFlight, currentFrame, frameNo, freedInFlight,
                   staging, history,
                   heightmap, meshData, device, screen, loop, sim, objects>>

\* updateNode() on an interior node: the calls on the children
Recurse ==
    /\ Visiting
    /\ ~isLeaf(nodes[Top])
    /\ ~MergeCondition(nodes, Top, cam)
    /\ stack' = ChildCalls(nodes, Top, cam.pos) \o Tail(stack)
    /\ log' = [log EXCEPT !.visited = Append(@, Top)]
    /\ UNCHANGED <<nodes, deferredDestroy_, activeNodes_, batchCount_, splitBudget, cam,
                   cmdCopies, queue, inFlight, currentFrame, pc, frameNo, freedInFlight,
                   staging, history,
                   heightmap, meshData, device, screen, loop, sim, objects>>

\* every queued mesh but the first is destroyed
ClearDeferredButFirst(S0) ==
    CHOOSE R \in
        { [S EXCEPT !.deferredDestroy_ = IF @ = <<>> THEN <<>> ELSE <<Head(@)>>,
                    !.freedInFlight = @ \cup (Range(Tail(S.deferredDestroy_ \o <<NoMesh>>))
                                                \cap (QueueMeshes(S.queue) \cup S.cmdCopies)),
                    !.history.uploaded = @ \ Range(Tail(S.deferredDestroy_ \o <<NoMesh>>))] :
            S \in {S0} } : TRUE

\* deferredDestroy_.clear(): every queued mesh is destroyed
ClearDeferred(S0) ==
    CHOOSE R \in
        { [S EXCEPT !.deferredDestroy_ = <<>>,
                    !.freedInFlight = @ \cup (Range(S.deferredDestroy_)
                                                \cap (QueueMeshes(S.queue) \cup S.cmdCopies)),
                    !.history.uploaded = @ \ Range(S.deferredDestroy_)] :
            S \in {S0} } : TRUE

\* update() after the loop that frees the command buffer without submitting it
\* whatever batchCount_ is
FlushAndClearDropsBatch(S0) ==
    CHOOSE R \in
        { StagingScopeExit(ClearDeferred([S EXCEPT !.cmdCopies = {}])) :
            S \in {[S0 EXCEPT !.staging = StagingEnd(@)]} } : TRUE

\* update() after the loop: staging.end() in both branches; submit the command
\* buffer and wait if batchCount_ > 0, free it unsubmitted otherwise (the copies
\* it holds are lost); then clear deferredDestroy_; the StagingBatch goes out of
\* scope at the return
FlushAndClear(S0) ==
    CHOOSE R \in
        { StagingScopeExit(ClearDeferred(IF S.batchCount_ > 0
                                         THEN endOneShot(S)
                                         ELSE [S EXCEPT !.cmdCopies = {}])) :
            S \in {[S0 EXCEPT !.staging = StagingEnd(@)]} } : TRUE

EndUpdate ==
    /\ pc = "update"
    /\ stack = <<>>
    /\ \E S \in {FlushAndClear(World)} : Install(S)
    /\ pc' = "draw"
    /\ log' = [log EXCEPT !.released = Range(deferredDestroy_)]
    /\ UNCHANGED <<activeNodes_, splitBudget, stack, cam, currentFrame, frameNo,
                   heightmap, meshData, device, screen, loop, sim, objects>>

\* main(): moon.draw(), vkQueueSubmit with the fence of the slot, advance currentFrame
DrawAndSubmit ==
    /\ pc = "draw"
    /\ queue' = Append(queue, [kind |-> "draw", meshes |-> draw(nodes, cam),
                               slot |-> currentFrame, staging |-> NoBuffer,
                               calls |-> drawCalls(nodes, cam)])
    /\ currentFrame' = (currentFrame + 1) % MAX_FRAMES_IN_FLIGHT
    /\ pc' = "idle"
    /\ UNCHANGED <<nodes, deferredDestroy_, activeNodes_, batchCount_, splitBudget, stack, cam,
                   cmdCopies, inFlight, frameNo, freedInFlight, log, staging, history,
                   heightmap, meshData, device, screen, loop, sim, objects>>

\* The device finishes the oldest submission of the queue and signals its fence
DeviceComplete ==
    /\ queue # <<>>
    /\ queue' = Tail(queue)
    /\ inFlight' = IF Head(queue).kind = "draw"
                   THEN [inFlight EXCEPT ![Head(queue).slot] = TRUE]
                   ELSE inFlight
    /\ freedInFlight' = freedInFlight \cap QueueMeshes(Tail(queue))
    /\ history' = [history EXCEPT
                      !.uploaded = IF Head(queue).kind = "transfer"
                                   THEN @ \cup Head(queue).meshes ELSE @,
                      !.stagingFreedInFlight = @ \cap StagingReads(Tail(queue))]
    /\ UNCHANGED <<nodes, deferredDestroy_, activeNodes_, batchCount_, splitBudget, stack, cam,
                   cmdCopies, currentFrame, pc, frameNo, log, staging,
                   heightmap, meshData, device, screen, loop, sim, objects>>

Next ==
    \/ \E c \in Cameras : BeginFrame(c)
    \/ SplitLeaf
    \/ \E k \in Quads : SplitFails(k)
    \/ KeepLeaf
    \/ MergeChildren
    \/ MergeFails
    \/ Recurse
    \/ EndUpdate
    \/ DrawAndSubmit
    \/ DeviceComplete

Spec == Init /\ [][Next]_vars

(* ------------------------------------------------------------------ *)
(* The frame loop with the camera held still                           *)
(* ------------------------------------------------------------------ *)
\* 800 km above the centre of face 0
OscPos == <<2536, 0, 0>>

\* 100 km above the centre of face 0, 720 px screen height and 70 degrees of
\* vertical field of view (720 / (2 tan 35) = 514)
ScenarioCamera ==
    [pos |-> <<Radius + 100, 0, 0>>, scale |-> 514, planes |-> WideFrustum]

\* Cameras of the runs with a static camera: a small screen close to face 0,
\* the second camera of Cameras and the camera of the scenario
StaticCameras ==
    { [pos |-> OscPos, scale |-> 15, planes |-> WideFrustum],
      [pos |-> FarPos, scale |-> 400, planes |-> WideFrustum],
      ScenarioCamera }

\* BeginFrame with the arguments of update() the same in every frame; the loop
\* runs for ever, frameNo stops counting at MaxFrames
BeginFrameHeld(c) ==
    /\ pc = "idle"
    /\ frameNo = 0 \/ c = cam
    /\ inFlight[currentFrame]
    /\ inFlight' = [inFlight EXCEPT ![currentFrame] = FALSE]
    /\ frameNo' = IF frameNo < MaxFrames THEN frameNo + 1 ELSE frameNo
    /\ cam' = c
    /\ activeNodes_' = 0
    /\ batchCount_' = 0
    /\ cmdCopies' = {}
    /\ splitBudget' = MAX_SPLITS_PER_FRAME
    /\ stack' = [k \in 1 .. 6 |-> <<faceOrder(nodes, c.pos)[k]>>]
    /\ pc' = "update"
    /\ log' = [EmptyLog EXCEPT !.startEligible = Eligible(nodes, c),
                               !.inFlightReads = QueueMeshes(queue),
                               !.deniedBefore = DeniedLeaves(nodes, cam, log)]
    /\ \E S \in {StagingBegin(World, MESHES_PER_BATCH * BYTES_PER_MESH)} :
          /\ staging' = S.staging
          /\ history' = [S.history EXCEPT !.transfers = <<>>]
    /\ UNCHANGED <<nodes, deferredDestroy_, queue, currentFrame, freedInFlight,
                   heightmap, meshData, device, screen, loop, sim, objects>>

NextStatic ==
    \/ \E c \in StaticCameras : BeginFrameHeld(c)
    \/ SplitLeaf
    \/ \E k \in Quads : SplitFails(k)
    \/ KeepLeaf
    \/ MergeChildren
    \/ MergeFails
    \/ Recurse
    \/ EndUpdate
    \/ DrawAndSubmit
    \/ DeviceComplete

\* Some step of NextStatic can be taken: the state predicate that
\* ENABLED <<NextStatic>>_vars comes to (the device has work, or main() is not
\* blocked on the fence of its frame slot and has not been aborted)
CanStep ==
    \/ queue # <<>>
    \/ pc = "update"
    \/ pc = "draw"
    \/ pc = "idle" /\ inFlight[currentFrame]

\* Weak fairness of NextStatic, with its enabling condition written as CanStep
LoopRuns == []<>(~CanStep) \/ []<><<NextStatic>>_vars

\* main() keeps running frames and the device keeps executing what it is given
SpecStatic == Init /\ [][NextStatic]_vars /\ WF_vars(DeviceComplete) /\ LoopRuns

(* ------------------------------------------------------------------ *)
(* Properties                                                          *)
(* ------------------------------------------------------------------ *)
ChildCount(n) == Cardinality({i \in Quads : n.children[i + 1]})
ErrorOf(p) == screenError(nodes[p], cam)
\* the split rule without the budget, spelled out
MeetsSplitRule(p) ==
    /\ sphereInFrustum(cam.planes, VSub(nodes[p].worldCenter, cam.pos), nodes[p].boundingRadius)
    /\ ErrorOf(p).num > SPLIT_THRESHOLD * ErrorOf(p).den
    /\ nodes[p].depth < MAX_DEPTH

\* C1: every node has either no children or all four; isLeaf() (children[0]
\* absent) holds exactly for the nodes without children, and a child exists
\* exactly where its parent's slot is set.
C1_ZeroOrFourChildren ==
    \A p \in DOMAIN nodes :
        /\ ChildCount(nodes[p]) \in {0, 4}
        /\ isLeaf(nodes[p]) <=> ChildCount(nodes[p]) = 0
        /\ \A i \in Quads : nodes[p].children[i + 1] <=> ChildPath(p, i) \in DOMAIN nodes

\* a merge has happened in a forest that still has interior nodes
C1_Witness ==
    /\ log.merged # {}
    /\ \E p \in DOMAIN nodes : ChildCount(nodes[p]) = 4
    /\ \E p \in log.merged : ChildCount(nodes[p]) = 0

\* C2: whenever deferredDestroy_ is cleared, no submission the device has not
\* finished, and no recorded copy, refers to one of the meshes destroyed.
C2_ReleaseAfterDeviceCompletion ==
    [][(deferredDestroy_ # <<>> /\ deferredDestroy_' = <<>>)
          => /\ Range(deferredDestroy_) \cap QueueMeshes(queue') = {}
             /\ Range(deferredDestroy_) \cap cmdCopies' = {}
             /\ freedInFlight' = {}]_vars

\* an update() has destroyed a mesh that a draw in flight was reading when the
\* update() began
C2_Witness ==
    /\ pc = "draw"
    /\ log.released \cap log.inFlightReads # {}

\* C3: no mesh is held twice: not by two nodes, not by two entries of
\* deferredDestroy_, not by a node and an entry.
C3_SingleOwner ==
    /\ \A p, q \in DOMAIN nodes :
          (p # q /\ nodes[p].mesh # NoMesh) => nodes[p].mesh # nodes[q].mesh
    /\ \A i, j \in 1 .. Len(deferredDestroy_) :
          i # j => deferredDestroy_[i] # deferredDestroy_[j]
    /\ \A p \in DOMAIN nodes : nodes[p].mesh \notin Range(deferredDestroy_)
    /\ NoMesh \notin Range(deferredDestroy_)

\* meshes of a split parent and of merged children are queued while leaves hold theirs
C3_Witness ==
    /\ Len(deferredDestroy_) >= 5
    /\ log.split # {}
    /\ log.merged # {}

\* C4: a node whose mesh a split has taken away has four children that each got
\* a mesh (and hold it, unless split in turn); while a child still lacks its
\* mesh, the parent holds its own mesh and the queue does not.
C4_SplitTransactional ==
    \A p \in DOMAIN nodes :
        /\ (p \in log.split /\ nodes[p].mesh = NoMesh) =>
              \A i \in Quads :
                  /\ ChildPath(p, i) \in DOMAIN nodes
                  /\ (nodes[ChildPath(p, i)].mesh # NoMesh \/ ChildPath(p, i) \in log.split)
        /\ (\E i \in Quads : /\ ChildPath(p, i) \in DOMAIN nodes
                             /\ ChildCount(nodes[ChildPath(p, i)]) = 0
                             /\ nodes[ChildPath(p, i)].mesh = NoMesh) =>
              /\ nodes[p].mesh # NoMesh
              /\ nodes[p].mesh \notin Range(deferredDestroy_)

\* the creation of the mesh of a child has failed part-way through a split
C4_Witness ==
    /\ pc = "aborted"
    /\ \E p \in DOMAIN nodes :
          /\ ChildCount(nodes[p]) = 4
          /\ nodes[ChildPath(p, 0)].mesh # NoMesh
          /\ nodes[ChildPath(p, 3)].mesh = NoMesh

\* C5: every node split by the current update() is visible, has a screenError
\* above SPLIT_THRESHOLD and a depth below MAX_DEPTH; no node is deeper than
\* MAX_DEPTH and every child is one deeper than its parent.
C5_SplitRule ==
    /\ \A p \in log.split : p \in DOMAIN nodes /\ MeetsSplitRule(p)
    /\ \A p \in DOMAIN nodes :
          /\ nodes[p].depth <= MAX_DEPTH
          /\ Len(p) = 1 => nodes[p].depth = 0
          /\ Len(p) > 1 => nodes[p].depth = nodes[SubSeq(p, 1, Len(p) - 1)].depth + 1

\* an update() has split a node, has left alone a leaf at MAX_DEPTH that is
\* visible with an error above the threshold, and a shallower one that is
\* culled with an error above the threshold and was visited before a split
C5_Witness ==
    /\ pc = "draw"
    /\ \E p \in DOMAIN nodes :
          /\ nodes[p].depth = MAX_DEPTH
          /\ visible(nodes[p], cam)
          /\ ErrGT(ErrorOf(p), SPLIT_THRESHOLD)
    /\ \E i, j \in 1 .. Len(log.visited) :
          /\ i < j
          /\ log.visited[j] \in log.split
          /\ log.visited[i] \in DOMAIN nodes
          /\ ChildCount(nodes[log.visited[i]]) = 0
          /\ nodes[log.visited[i]].depth < MAX_DEPTH
          /\ ~visible(nodes[log.visited[i]], cam)
          /\ ErrGT(ErrorOf(log.visited[i]), SPLIT_THRESHOLD)

\* Leaves that the current update() has visited and left alone although they
\* meet the split rule: the leaves denied a split for lack of budget
Denied ==
    {p \in Range(log.visited) :
        /\ p \in DOMAIN nodes
        /\ ChildCount(nodes[p]) = 0
        /\ p \notin log.merged
        /\ MeetsSplitRule(p)}

C7_BudgetInFours ==
    /\ log.created % 4 = 0
    /\ log.created <= MAX_SPLITS_PER_FRAME
    /\ log.created = 4 * Cardinality(log.split) \/ pc = "aborted"
    /\ splitBudget >= 0
    /\ (frameNo > 0 /\ pc # "aborted") => splitBudget = MAX_SPLITS_PER_FRAME - log.created

\* an update() has spent the budget down to less than one split
C7_Witness ==
    /\ pc = "draw"
    /\ log.created >= 8
    /\ splitBudget < 4
    /\ Denied # {}

\* C8 as stated: with a budget of 8 and 10 eligible leaves, 8 of them are split
\* and 2 stay leaves.
C8_TopEightSplit ==
    (pc = "draw" /\ MAX_SPLITS_PER_FRAME = 8 /\ Cardinality(log.startEligible) = 10) =>
        /\ Cardinality(log.startEligible \cap log.split) = 8
        /\ Cardinality({p \in log.startEligible : ChildCount(nodes[p]) = 0}) = 2

\* C8 (amended): with 10 or more eligible leaves at the start of update(),
\* exactly MAX_SPLITS_PER_FRAME / 4 splits happen (2 for a budget of 8), each
\* creating 4 children; every other candidate is still a leaf with its mesh, no
\* node has 1 to 3 children, and update() has evaluated every node of the forest.
C8_TwoSplitsOfTen ==
    (pc = "draw" /\ Cardinality(log.startEligible) >= 10) =>
        /\ Cardinality(log.split) = MAX_SPLITS_PER_FRAME \div 4
        /\ log.created = 4 * (MAX_SPLITS_PER_FRAME \div 4)
        /\ \A p \in log.startEligible \ log.split :
              /\ p \in DOMAIN nodes
              /\ ChildCount(nodes[p]) = 0
              /\ nodes[p].mesh # NoMesh
        /\ \A p \in DOMAIN nodes : ChildCount(nodes[p]) \in {0, 4}
        /\ DOMAIN nodes \subseteq Range(log.visited)

\* an update() that began with exactly 10 eligible leaves has ended
C8_Witness ==
    /\ pc = "draw"
    /\ Cardinality(log.startEligible) = 10
    /\ Cardinality(log.split) = 2
    /\ Cardinality({p \in log.startEligible : ChildCount(nodes[p]) = 0}) >= 8

\* the step is the call of updateNode on the interior node at the head of the stack
InteriorVisit ==
    /\ pc = "update"
    /\ stack # <<>>
    /\ ChildCount(nodes[Head(stack)]) # 0
    /\ log'.visited # log.visited

\* C9: the call of updateNode on an interior node merges it exactly when its
\* four children are leaves with a screenError below MERGE_THRESHOLD each (so
\* the largest is below it), and leaves the split budget as it is.
C9_MergeRule ==
    [][InteriorVisit =>
          LET p == Head(stack)
              rule == \A i \in Quads :
                         /\ ChildPath(p, i) \in DOMAIN nodes
                         /\ ChildCount(nodes[ChildPath(p, i)]) = 0
                         /\ ErrorOf(ChildPath(p, i)).num
                               < MERGE_THRESHOLD * ErrorOf(ChildPath(p, i)).den
          IN /\ pc' = "update" => (ChildCount(nodes'[p]) = 0 <=> rule)
             /\ pc' = "update" => (p \in log'.merged <=> rule)
             /\ pc' = "aborted" => rule
             /\ splitBudget' = splitBudget]_vars

\* the last call has merged a node that is culled, with the budget used up
C9_Witness ==
    /\ pc = "update"
    /\ log.visited # <<>>
    /\ log.visited[Len(log.visited)] \in log.merged
    /\ ~visible(nodes[log.visited[Len(log.visited)]], cam)
    /\ splitBudget < 4

\* C10: a merge leaves the node a leaf with a mesh, removes its four children
\* and appends the four meshes they held to deferredDestroy_, destroying none.
C10_MergeEffect ==
    [][(InteriorVisit /\ pc' = "update" /\ ChildCount(nodes'[Head(stack)]) # 4) =>
          LET p == Head(stack)
              held == {nodes[ChildPath(p, i)].mesh : i \in Quads} \ {NoMesh}
          IN /\ ChildCount(nodes'[p]) = 0
             /\ nodes'[p].mesh # NoMesh
             /\ \A q \in DOMAIN nodes' : q = p \/ ~IsPrefix(p, q)
             /\ Cardinality(held) = 4
             /\ held \subseteq Range(deferredDestroy_')
             /\ Len(deferredDestroy_') = Len(deferredDestroy_) + 4
             /\ SubSeq(deferredDestroy_', 1, Len(deferredDestroy_)) = deferredDestroy_
             /\ freedInFlight' = freedInFlight]_vars

\* the last call has merged a node: it holds a mesh made by this update() and
\* the meshes of its children are queued
C10_Witness ==
    /\ pc = "update"
    /\ log.visited # <<>>
    /\ log.visited[Len(log.visited)] \in log.merged
    /\ nodes[log.visited[Len(log.visited)]].mesh # NoMesh
    /\ ChildCount(nodes[log.visited[Len(log.visited)]]) = 0
    /\ Len(deferredDestroy_) >= 4

\* the step is the call of updateNode on a leaf that meets the split rule when
\* less than 4 of the budget is left
DeniedVisit ==
    /\ pc = "update"
    /\ stack # <<>>
    /\ ChildCount(nodes[Head(stack)]) = 0
    /\ MeetsSplitRule(Head(stack))
    /\ splitBudget < 4
    /\ log'.visited # log.visited

\* C11: updateNode on an eligible leaf with less than 4 of the budget left
\* changes neither the forest nor deferredDestroy_ nor the budget and raises
\* no error (the traversal goes on); and when the next update() returns it has
\* called updateNode on every leaf so denied by the update() before it, or has
\* read the error of the leaf in the merge test of its parent and merged it away.
C11_DeniedLeafUnchanged ==
    [][/\ DeniedVisit =>
            /\ nodes' = nodes
            /\ deferredDestroy_' = deferredDestroy_
            /\ splitBudget' = splitBudget
            /\ batchCount_' = batchCount_
            /\ cmdCopies' = cmdCopies
            /\ pc' = "update"
            /\ stack' = Tail(stack)
       /\ pc' = "draw" =>
            \A p \in log'.deniedBefore :
                \/ p \in Range(log'.visited)
                \/ SubSeq(p, 1, Len(p) - 1) \in log'.merged]_vars

\* an update() has returned after visiting again a leaf that the update()
\* before it had denied a split: one it has now split and one it has denied again
C11_Witness ==
    /\ pc = "draw"
    /\ log.deniedBefore \cap log.split # {}
    /\ log.deniedBefore \cap Denied # {}

\* C12 as stated: with the arguments of update() held constant, from some
\* frame on no update() splits or merges a node (a run that ended in an
\* uncaught exception counts as settled).
C12_ReachesFixedPoint ==
    <>[](pc = "aborted" \/ (log.split = {} /\ log.merged = {}))

\* the first update() call, made with the camera of the scenario
ScenarioFrame == frameNo = 1 /\ cam = ScenarioCamera

\* C13 as stated: in the scenario the first update() creates exactly 4 children
\* and queues exactly one mesh, that of the root, for destruction.
C13_ExactlyFourChildren ==
    (ScenarioFrame /\ pc = "draw") =>
        /\ ErrGT(ErrorOf(<<0>>), SPLIT_THRESHOLD)
        /\ log.created = 4
        /\ log.released = {Constructed.nodes[<<0>>].mesh}

\* C13 (amended): in the scenario the error of the root under the camera is
\* above SPLIT_THRESHOLD and the first update() splits it first: that split
\* creates exactly 4 children and queues exactly the mesh of the root.  The
\* same call goes on splitting until the budget is spent, so that it creates
\* 4 * (MAX_SPLITS_PER_FRAME / 4) children in all and releases one mesh per split.
C13_RootSplitFirst ==
    /\ (ScenarioFrame /\ pc = "update" /\ Len(log.visited) = 1) =>
          /\ log.visited[1] = <<0>>
          /\ ErrGT(ErrorOf(<<0>>), SPLIT_THRESHOLD)
          /\ log.split = {<<0>>}
          /\ log.created = 4
          /\ DOMAIN nodes = {<<f>> : f \in Faces} \cup {<<0, i>> : i \in Quads}
          /\ deferredDestroy_ = <<Constructed.nodes[<<0>>].mesh>>
          /\ nodes[<<0>>].mesh = NoMesh
    /\ (ScenarioFrame /\ pc = "draw") =>
          /\ <<0>> \in log.split
          /\ ChildCount(nodes[<<0>>]) = 4
          /\ log.created = 4 * (MAX_SPLITS_PER_FRAME \div 4)
          /\ Cardinality(log.split) = MAX_SPLITS_PER_FRAME \div 4
          /\ Constructed.nodes[<<0>>].mesh \in log.released
          /\ Cardinality(log.released) = MAX_SPLITS_PER_FRAME \div 4
          /\ deferredDestroy_ = <<>>

\* the first update() of the scenario has returned, having split the root
\* under the camera and then one of its children
C13_Witness ==
    /\ ScenarioFrame
    /\ pc = "draw"
    /\ <<0>> \in log.split
    /\ \E i \in Quads : <<0, i>> \in log.split
    /\ log.created > 4

(* ------------------------------------------------------------------ *)
(* StagingBatch on its own: any caller of begin / write / end          *)
(* ------------------------------------------------------------------ *)
\* the capacities a caller passes to begin(): small ones, and the two that
\* CubesphereBody passes
Capacities == {4, 8, 6 * BYTES_PER_MESH, MESHES_PER_BATCH * BYTES_PER_MESH}

\* the sizes a caller passes to write(): small ones, the two of one mesh, and one
\* that is close to the largest VkDeviceSize
WriteSizes == {1, 3, VertexBytes, IndexBytes, SizeModulus - 2}

\* staging.begin(ctx, cap)
BatchBegin(cap) ==
    /\ pc = "idle"
    /\ queue = <<>>
    /\ \E S \in {StagingBegin(World, cap)} :
          /\ staging' = S.staging
          /\ history' = S.history
    /\ UNCHANGED <<nodes, deferredDestroy_, activeNodes_, batchCount_, splitBudget, stack, cam,
                   cmdCopies, queue, inFlight, currentFrame, pc, frameNo, freedInFlight, log,
                   heightmap, meshData, device, screen, loop, sim, objects>>

\* staging.write(data, size) between begin() and end()
BatchWrite(size) ==
    /\ staging.mapped
    /\ Len(staging.writes) < MaxWrites
    /\ staging' = StagingWrite(staging, size)
    /\ UNCHANGED <<nodes, deferredDestroy_, activeNodes_, batchCount_, splitBudget, stack, cam,
                   cmdCopies, queue, inFlight, currentFrame, pc, frameNo, freedInFlight, log,
                   history,
                   heightmap, meshData, device, screen, loop, sim, objects>>

\* staging.end()
BatchEnd ==
    /\ staging.mapped
    /\ staging' = StagingEnd(staging)
    /\ UNCHANGED <<nodes, deferredDestroy_, activeNodes_, batchCount_, splitBudget, stack, cam,
                   cmdCopies, queue, inFlight, currentFrame, pc, frameNo, freedInFlight, log,
                   history,
                   heightmap, meshData, device, screen, loop, sim, objects>>

NextStaging ==
    \/ \E cap \in Capacities : BatchBegin(cap)
    \/ \E size \in WriteSizes : BatchWrite(size)
    \/ BatchEnd

SpecStaging == Init /\ [][NextStaging]_vars

\* the sum of the sizes of the first n writes of the batch
RECURSIVE SumOfSizes(_, _)
SumOfSizes(w, n) ==
    IF n = 0 THEN 0 ELSE SumOfSizes(w, n - 1) + w[n].size

\* C14: between begin(capacity) and end(), each write returns the sum of the
\* sizes of the earlier writes of the batch, and the offset never exceeds the
\* capacity (a write that would take it beyond fails instead of copying)
C14_WriteWithinCapacity ==
    /\ staging.offset <= staging.capacity
    /\ \A i \in 1 .. Len(staging.writes) :
          staging.writes[i].ret = SumOfSizes(staging.writes, i - 1)

\* C15: the staging buffer of a batch is neither destroyed nor replaced by a new
\* begin() while a submitted command buffer that copies from it has not
\* completed: no staging buffer has been destroyed under a transfer still on the
\* queue, and every transfer on the queue reads the buffer the batch still holds
C15_StagingOutlivesCopies ==
    /\ history.stagingFreedInFlight = {}
    /\ \A b \in StagingReads(queue) : b = staging.buffer

\* an update() that flushed in mid-traversal (begin() replaced the staging buffer
\* after a submission) and flushed again at its end has returned, its
\* StagingBatch destroyed
C15_Witness ==
    /\ pc = "draw"
    /\ Len(history.transfers) >= 2
    /\ staging = NoStaging

\* C16: no submission made by the constructor or by update() carries the
\* uploads of more than MESHES_PER_BATCH meshes: a batch is submitted as soon as
\* it holds MESHES_PER_BATCH meshes (so the open batch always holds fewer, and
\* every submission made before the end of the call holds exactly that many),
\* the fresh batch starts empty with the count at zero, and an update() that
\* generated no mesh makes no submission
C16_BatchNeverOverfull ==
    /\ \A i \in 1 .. Len(history.transfers) :
          /\ Cardinality(history.transfers[i]) \in 1 .. MESHES_PER_BATCH
          /\ (i < Len(history.transfers) \/ pc = "update") =>
                Cardinality(history.transfers[i]) = MESHES_PER_BATCH
    /\ batchCount_ < MESHES_PER_BATCH
    /\ pc = "update" =>
          /\ batchCount_ = Cardinality(cmdCopies)
          /\ Len(staging.writes) = 2 * batchCount_
    /\ (pc = "draw" /\ log.created = 0 /\ log.merged = {}) => history.transfers = <<>>

\* the traversal of an update() goes on after a submission of a full batch, with
\* meshes again in the fresh batch
C16_Witness ==
    /\ pc = "update"
    /\ history.transfers # <<>>
    /\ batchCount_ > 0

\* the leaves with a mesh whose own bounding sphere passes the frustum test
LeavesInFrustum(ns, c) ==
    {p \in DOMAIN ns : isLeaf(ns[p]) /\ hasMesh(ns[p]) /\ visible(ns[p], c)}

\* the leaves with a mesh whose bounding sphere passes the frustum test, and so
\* does the bounding sphere of each of their ancestors
LeavesReached(ns, c) ==
    {p \in LeavesInFrustum(ns, c) :
        \A k \in 1 .. Len(p) : visible(ns[SubSeq(p, 1, k)], c)}

\* the draw() of the frame is recorded and submitted in this step
DrawStep == pc = "draw" /\ pc' = "idle"

\* C17 as stated: draw() issues exactly one push-constant submission and one
\* indexed draw for every leaf that has a mesh and whose bounding sphere passes
\* the frustum test, and none for any other node
C17_OnePerLeafInFrustum ==
    [][DrawStep =>
          LET calls == queue'[Len(queue')].calls
          IN /\ Cardinality(Range(calls)) = Len(calls)
             /\ Range(calls) = LeavesInFrustum(nodes, cam)]_vars

\* C17: draw() issues exactly one push-constant submission and one indexed draw
\* for every leaf that has a mesh and whose bounding sphere passes the frustum
\* test together with the bounding sphere of every ancestor of the leaf, and
\* none for any other node; the meshes drawn are the meshes of these leaves
C17_OnePerLeafReached ==
    [][DrawStep =>
          LET calls == queue'[Len(queue')].calls
          IN /\ Cardinality(Range(calls)) = Len(calls)
             /\ Range(calls) = LeavesReached(nodes, cam)
             /\ queue'[Len(queue')].meshes = {nodes[p].mesh : p \in Range(calls)}]_vars

\* a draw() has been recorded that drew some leaves and passed over a leaf with
\* a mesh whose own bounding sphere is in the frustum, below a culled ancestor
C17_Witness ==
    /\ pc = "idle"
    /\ queue # <<>>
    /\ queue[Len(queue)].kind = "draw"
    /\ queue[Len(queue)].calls = drawCalls(nodes, cam)
    /\ queue[Len(queue)].calls # <<>>
    /\ LeavesInFrustum(nodes, cam) # LeavesReached(nodes, cam)

\* C18: whenever the constructor or an update() has returned, every root is
\* there, every leaf of the forest has a mesh, no interior node has one, and
\* every interior node has its four children: no split or merge is left half
\* done, and the leaves with meshes cover every face
C18_LeavesHoldMeshes ==
    pc \in {"idle", "draw"} =>
        /\ \A f \in Faces : <<f>> \in DOMAIN nodes
        /\ \A p \in DOMAIN nodes :
              /\ isLeaf(nodes[p]) <=> hasMesh(nodes[p])
              /\ ChildCount(nodes[p]) \in {0, 4}
              /\ \A i \in Quads : nodes[p].children[i + 1] <=> ChildPath(p, i) \in DOMAIN nodes

\* an update() that split one node and merged another has returned, with a
\* forest of leaves at two depths
C18_Witness ==
    /\ pc = "draw"
    /\ log.split # {}
    /\ log.merged # {}
    /\ \E p \in DOMAIN nodes : isLeaf(nodes[p]) /\ nodes[p].depth = MAX_DEPTH
    /\ \E p \in DOMAIN nodes : isLeaf(nodes[p]) /\ nodes[p].depth = 0

\* the meshes that the nodes of the forest hold
MeshesOfNodes(ns) == {ns[p].mesh : p \in DOMAIN ns} \ {NoMesh}

\* update() returns in this step
UpdateReturns == pc = "update" /\ pc' = "draw"

\* C19: every upload copy recorded during update() has been submitted and has
\* completed on the device when update() returns: the command buffer is freed
\* unsubmitted only if it holds no copy, no transfer is left on the queue, and
\* every mesh of the forest has been filled; the draw submitted afterwards reads
\* only meshes whose transfer is complete
C19_UploadsCompleteBeforeDraw ==
    [][/\ UpdateReturns =>
            /\ batchCount_ = 0 => cmdCopies = {}
            /\ cmdCopies' = {}
            /\ TransferMeshes(queue') = {}
            /\ MeshesOfNodes(nodes') \subseteq history'.uploaded
       /\ DrawStep =>
            /\ queue'[Len(queue')].meshes \subseteq history.uploaded
            /\ TransferMeshes(queue') = {}]_vars

\* a draw has been submitted that reads a mesh uploaded by the update() of the
\* same frame
C19_Witness ==
    /\ pc = "idle"
    /\ queue # <<>>
    /\ queue[Len(queue)].kind = "draw"
    /\ \E i \in 1 .. Len(history.transfers) :
          queue[Len(queue)].meshes \cap history.transfers[i] # {}

(* ------------------------------------------------------------------ *)
(* Heightmap on its own: load() on some file, then sample()            *)
(* ------------------------------------------------------------------ *)
\* a 16-bit and a 32-bit number as the bytes of a file in either byte order
Enc16(littleEndian, n) ==
    IF littleEndian THEN <<n % 256, n \div 256>> ELSE <<n \div 256, n % 256>>
Enc32(littleEndian, n) ==
    IF littleEndian
    THEN <<n % 256, (n \div 256) % 256, (n \div 65536) % 256, n \div 16777216>>
    ELSE <<n \div 16777216, (n \div 65536) % 256, (n \div 256) % 256, n % 256>>

\* the eight bytes at the start of a TIFF file
TiffHeader(littleEndian, magic, ifdOff) ==
    (IF littleEndian THEN <<73, 73>> ELSE <<77, 77>>)
      \o Enc16(littleEndian, magic) \o Enc32(littleEndian, ifdOff)

\* one IFD entry of twelve bytes
TiffEntry(littleEndian, tag, type, count, value) ==
    Enc16(littleEndian, tag) \o Enc16(littleEndian, type) \o Enc32(littleEndian, count)
      \o (IF type = 3 /\ count = 1
          THEN Enc16(littleEndian, value) \o <<0, 0>>
          ELSE Enc32(littleEndian, value))

\* a whole number of kilometres as the four bytes of a float in the file
FileFloat(littleEndian, km) ==
    LET host == CASE km = 0 -> <<0, 0, 0, 0>>
                  [] km = 2 -> <<0, 0, 0, 64>>
                  [] km = 5 -> <<0, 0, 160, 64>>
    IN IF littleEndian THEN host ELSE swapFloat(host)

\* the entries that an IFD of the files below is made of
EntryLists(littleEndian) ==
    LET w(n) == TiffEntry(littleEndian, 256, 3, 1, n)
        h(n) == TiffEntry(littleEndian, 257, 4, 1, n)
        bits == TiffEntry(littleEndian, 258, 3, 1, 32)
    IN { <<>>, <<bits>>, <<w(1)>>, <<h(1)>>, <<w(0), h(1)>>, <<w(1), h(0)>>,
         <<bits, w(0), h(0)>> }

\* header, entry count, entries, offset of the next IFD
TiffWithEntries(littleEndian, entries) ==
    LET body == IF Len(entries) = 0 THEN <<>>
                ELSE IF Len(entries) = 1 THEN entries[1]
                ELSE IF Len(entries) = 2 THEN entries[1] \o entries[2]
                ELSE entries[1] \o entries[2] \o entries[3]
    IN TiffHeader(littleEndian, 42, 8) \o Enc16(littleEndian, Len(entries)) \o body
         \o <<0, 0, 0, 0>>

\* a 1 x 1 map in one strip that holds km
TiffOneByOne(littleEndian, km) ==
    TiffHeader(littleEndian, 42, 8) \o Enc16(littleEndian, 4)
      \o TiffEntry(littleEndian, 256, 3, 1, 1) \o TiffEntry(littleEndian, 257, 3, 1, 1)
      \o TiffEntry(littleEndian, 273, 4, 1, 62) \o TiffEntry(littleEndian, 278, 3, 1, 1)
      \o <<0, 0, 0, 0>> \o FileFloat(littleEndian, km)

OnDisk(bytes) == [exists |-> TRUE, bytes |-> bytes]

\* no file at the path
MissingFile == [exists |-> FALSE, bytes |-> <<>>]
\* files shorter than the header
ShortFiles == {OnDisk(SubSeq(TiffHeader(TRUE, 42, 8), 1, n)) : n \in 0 .. 7}
\* files that start with neither II nor MM
BadOrderFiles ==
    {OnDisk(<<88, 88>> \o Enc16(TRUE, 42) \o Enc32(TRUE, 8)),
     OnDisk(<<73, 77>> \o Enc16(TRUE, 42) \o Enc32(TRUE, 8))}
\* files whose magic number is not 42 in the byte order of the file
BadMagicFiles ==
    {OnDisk(TiffHeader(le, 43, 8)) : le \in BOOLEAN}
      \cup {OnDisk(<<73, 73>> \o Enc16(FALSE, 42) \o Enc32(TRUE, 8))}
\* well-formed files whose IFD gives no width or no height
NoDimensionFiles ==
    UNION {{OnDisk(TiffWithEntries(le, es)) : es \in EntryLists(le)} : le \in BOOLEAN}
\* files that end where the header says the IFD is, or inside the IFD
TruncatedFiles ==
    {OnDisk(TiffHeader(le, 42, 8)) : le \in BOOLEAN}
      \cup {OnDisk(TiffHeader(le, 42, 8) \o Enc16(le, 1)) : le \in BOOLEAN}
      \cup {OnDisk(TiffHeader(le, 42, 64)) : le \in BOOLEAN}
\* files with a 1 x 1 heightfield, whole or cut off before the data
MapFiles ==
    UNION {{OnDisk(TiffOneByOne(le, km)) : km \in {0, 2, 5}} : le \in BOOLEAN}
      \cup {OnDisk(SubSeq(TiffOneByOne(TRUE, 2), 1, 62))}

Files ==
    {MissingFile} \cup ShortFiles \cup BadOrderFiles \cup BadMagicFiles
      \cup NoDimensionFiles \cup TruncatedFiles \cup MapFiles

Latitudes == {-2, 0, 1}
Longitudes == {-4, 0, 3}

\* heightmap.load(path) with the file at the path
HeightmapLoad(file) ==
    /\ heightmap.ret # "crash"
    /\ heightmap.loads < MaxLoads
    /\ \E h \in load(heightmap, file) :
          heightmap' = [h EXCEPT !.file = file, !.loaded = heightmap.data_ # <<>>,
                                 !.sampled = <<>>, !.loads = @ + 1]
    /\ UNCHANGED <<nodes, deferredDestroy_, activeNodes_, batchCount_, splitBudget, stack, cam,
                   cmdCopies, queue, inFlight, currentFrame, pc, frameNo, freedInFlight, log,
                   staging, history,
                   meshData, device, screen, loop, sim, objects>>

\* heightmap.sample(lat, lon)
HeightmapSample(lat, lon) ==
    /\ heightmap.ret # "crash"
    /\ heightmap' = [heightmap EXCEPT !.sampled =
                        <<[lat |-> lat, lon |-> lon, value |-> sample(heightmap, lat, lon)]>>]
    /\ UNCHANGED <<nodes, deferredDestroy_, activeNodes_, batchCount_, splitBudget, stack, cam,
                   cmdCopies, queue, inFlight, currentFrame, pc, frameNo, freedInFlight, log,
                   staging, history,
                   meshData, device, screen, loop, sim, objects>>

NextHeightmap ==
    \/ \E file \in Files : HeightmapLoad(file)
    \/ \E lat \in Latitudes, lon \in Longitudes : HeightmapSample(lat, lon)

SpecHeightmap == Init /\ [][NextHeightmap]_vars

\* the width and the height that the IFD entries lying whole inside the file
\* give (0 where none does); no entry if the entry count itself is cut off
DimensionsIn(file) ==
    LET buf == file.bytes
        le == buf[1] = 73
        ifdOff == u32(buf, le, 4)
        announced == IF Readable(buf, ifdOff, 2) THEN u16(buf, le, ifdOff) ELSE 0
        whole == {i \in 0 .. announced - 1 : Readable(buf, ifdOff + 2 + i * 12, 12)}
        value(tag) ==
            LET with == {i \in whole : u16(buf, le, ifdOff + 2 + i * 12) = tag}
            IN IF with = {} THEN 0
               ELSE LET entry == ifdOff + 2 + SetMax(with) * 12
                    IN ifdValue(buf, le, entry, u16(buf, le, entry + 2))
    IN [width |-> value(256), height |-> value(257)]

\* no heightfield data is available in the file: it is missing, too small, has
\* a bad byte order or magic, or lacks dimensions
NoHeightfield(file) ==
    \/ ~file.exists
    \/ Len(file.bytes) < 8
    \/ <<file.bytes[1], file.bytes[2]>> \notin {<<73, 73>>, <<77, 77>>}
    \/ u16(file.bytes, file.bytes[1] = 73, 2) # 42
    \/ DimensionsIn(file).width = 0
    \/ DimensionsIn(file).height = 0

\* C20: when no heightfield data is available, load() on an unloaded Heightmap
\* reports failure without raising an error, the heightmap stays unloaded, and
\* sample(lat, lon) returns 0.0 for every latitude and longitude
C20_NoDataSamplesZero ==
    (heightmap.ret # "none" /\ ~heightmap.loaded /\ NoHeightfield(heightmap.file)) =>
        /\ heightmap.ret = "false"
        /\ heightmap.data_ = <<>>
        /\ \A i \in 1 .. Len(heightmap.sampled) : heightmap.sampled[i].value = 0

(* ------------------------------------------------------------------ *)
(* ChunkGenerator::generate on its own                                 *)
(* ------------------------------------------------------------------ *)
\* the UV rectangles <<u0, u1, v0, v1>> passed: a face, its four quadrants, an
\* empty one and a reversed one
Rectangles ==
    { <<-UvOne, UvOne, -UvOne, UvOne>>,
      <<-UvOne, 0, -UvOne, 0>>, <<0, UvOne, -UvOne, 0>>,
      <<-UvOne, 0, 0, UvOne>>, <<0, UvOne, 0, UvOne>>,
      <<0, 0, -UvOne, UvOne>>, <<-UvOne, UvOne, UvOne, 0>> }

\* the grid resolutions passed: none, one vertex, the two smallest grids, and
\* the smallest one whose square does not fit a uint32_t
GridSizes == {0, 1, 2, 3, Pow2(GridWordBits \div 2)}

\* ChunkGenerator::generate(face, u0, u1, v0, v1, radius_, gridSize); the calls
\* of one behaviour are for patches of one face, and a call that does not
\* return ends the behaviour
Generate(face, rect, gridSize) ==
    /\ Len(meshData) < MaxCalls
    /\ \A k \in 1 .. Len(meshData) : meshData[k].ret = "ok" /\ meshData[k].args[1] = face
    /\ \E data \in generate(face, rect[1], rect[2], rect[3], rect[4], gridSize) :
          meshData' = <<data>> \o meshData
    /\ UNCHANGED <<nodes, deferredDestroy_, activeNodes_, batchCount_, splitBudget, stack, cam,
                   cmdCopies, queue, inFlight, currentFrame, pc, frameNo, freedInFlight, log,
                   staging, history, heightmap, device, screen, loop, sim, objects>>

NextGenerate ==
    \E face \in {0, 5}, rect \in Rectangles, gridSize \in GridSizes :
        Generate(face, rect, gridSize)

SpecGenerate == Init /\ [][NextGenerate]_vars

\* C21: a call of generate() with a degenerate UV rectangle (u0 >= u1 or
\* v0 >= v1) or with a grid resolution below 2 fails and never returns a mesh
C21_MalformedInputRejected ==
    \A k \in 1 .. Len(meshData) :
        LET a == meshData[k].args
        IN (a[2] >= a[3] \/ a[4] >= a[5] \/ a[6] < 2) => meshData[k].ret # "ok"

(* ------------------------------------------------------------------ *)
(* Device objects on their own                                         *)
(* ------------------------------------------------------------------ *)
Others == <<nodes, deferredDestroy_, activeNodes_, batchCount_, splitBudget, stack, cam,
            cmdCopies, queue, inFlight, currentFrame, pc, frameNo, freedInFlight, log,
            staging, history, heightmap, meshData, screen, loop, sim, objects>>

\* an exception reaches main, which has no handler, and a crash ends the process
Running == device.ret \in {"none", "ok"}

CreateRaw(rBuffer, rMemory) ==
    /\ Running
    /\ Cardinality(device.buffers) < MaxHandles
    /\ device' = createRaw(device, rBuffer, rMemory)
    /\ UNCHANGED Others

DestroyBuffer(b) ==
    /\ Running
    /\ b \in device.held
    /\ device' = [cleanup(device, b) EXCEPT !.call = "~Buffer", !.failed = "none",
                                            !.ret = "ok", !.invalid = FALSE]
    /\ UNCHANGED Others

BeginOneShot(rAlloc) ==
    /\ Running
    /\ Cardinality(device.cmds \ {0}) < MaxHandles
    /\ device' \in beginOneShot(device, rAlloc)
    /\ UNCHANGED Others

EndOneShot(cmd) ==
    /\ Running
    /\ cmd \in device.cmds
    /\ device' = endOneShotOf(device, cmd)
    /\ UNCHANGED Others

EndOneShotWithFence(cmd, rFence) ==
    /\ Running
    /\ cmd \in device.cmds
    /\ Cardinality(device.fences) < MaxHandles
    /\ device' = endOneShotWithFence(device, cmd, rFence)
    /\ UNCHANGED Others

NextDevice ==
    \/ \E rBuffer \in VkResults, rMemory \in VkResults : CreateRaw(rBuffer, rMemory)
    \/ \E b \in 1 .. MaxHandles : DestroyBuffer(b)
    \/ \E rAlloc \in VkResults : BeginOneShot(rAlloc)
    \/ \E cmd \in 0 .. MaxHandles : EndOneShot(cmd)
    \/ \E cmd \in 0 .. MaxHandles, rFence \in VkResults : EndOneShotWithFence(cmd, rFence)

SpecDevice == Init /\ [][NextDevice]_vars

\* C22: whenever a device function reports a failure during a call (buffer
\* creation, memory allocation, fence creation, one-shot command-buffer
\* allocation), the call raises an error and never goes on with a handle it
\* did not get; and after a failed memory allocation the buffer created just
\* before is destroyed, so every live buffer has memory bound
C22_DeviceFailureFatal ==
    /\ device.failed # "none" => device.ret = "throw" /\ ~device.invalid
    /\ 0 \notin device.cmds
    /\ device.buffers = device.memories

NodesAtStart ==
    ((DOMAIN nodes) \ {ChildPath(p, k) : p \in log.split, k \in Quads})
        \cup {ChildPath(p, k) : p \in log.merged, k \in Quads}

Parent(p) == SubSeq(p, 1, Len(p) - 1)

\* C24 as stated: transitions are evaluated bottom-up and once per frame: when
\* update() returns every node that existed at the start of the frame has been
\* visited, and the visit of a node, where its split or merge is decided, comes
\* after the visits of its children
C24_BottomUpOncePerFrame ==
    pc = "draw" =>
        /\ NodesAtStart \subseteq Range(log.visited)
        /\ \A i, j \in 1 .. Len(log.visited) :
              (Len(log.visited[i]) > 1 /\ log.visited[j] = Parent(log.visited[i])) => i < j

\* C24, amended: transitions are evaluated top-down and at most once per frame:
\* no node is visited twice, a node below a root is visited only after its
\* parent was visited and had its split or merge decided, and when update()
\* returns the nodes that existed at the start of the frame and were not
\* visited are exactly the children of the nodes merged in this frame
C24_TopDownOncePerFrame ==
    /\ \A i, j \in 1 .. Len(log.visited) : log.visited[i] = log.visited[j] => i = j
    /\ \A i \in 1 .. Len(log.visited) :
          Len(log.visited[i]) > 1 =>
              \E j \in 1 .. (i - 1) : log.visited[j] = Parent(log.visited[i])
    /\ pc = "draw" =>
          NodesAtStart \ Range(log.visited)
              = {ChildPath(p, k) : p \in log.merged, k \in Quads}

\* an update() that merged one node and split another has returned
C24_Witness ==
    /\ pc = "draw"
    /\ log.merged # {}
    /\ log.split # {}

\* distance from the camera to the worldCenter of a node visited by the
\* current update()
CenterDistance(p) == Length(VSub(nodes[p].worldCenter, cam.pos))

\* C25: update() visits the six roots in ascending order of the distance from
\* the camera to their worldCenter and walks each tree depth-first, children
\* nearest first, with one shared budget: every node of a nearer face is
\* visited, and offered the budget if it is an eligible leaf, before any node of
\* a farther face; the nodes of a subtree are visited one after the other; and
\* the children created by a split are visited in the same update(), where
\* they may be split in turn
C25_NearestFirstDepthFirst ==
    LET v == log.visited
        n == Len(v)
    IN /\ \A i, j \in 1 .. n :
             (i < j /\ v[i][1] # v[j][1]) =>
                 CenterDistance(<<v[i][1]>>) <= CenterDistance(<<v[j][1]>>)
       /\ \A i, j \in 1 .. n :
             (i < j /\ Len(v[i]) > 1 /\ Len(v[i]) = Len(v[j]) /\ Parent(v[i]) = Parent(v[j])) =>
                 CenterDistance(v[i]) <= CenterDistance(v[j])
       /\ \A i \in 1 .. n : \A k \in (i + 2) .. n : \A d \in 1 .. Len(v[i]) :
             IsPrefix(SubSeq(v[i], 1, d), v[k]) => IsPrefix(SubSeq(v[i], 1, d), v[k - 1])
       /\ \A i \in 1 .. n :
             (v[i] \in log.split /\ pc = "update") =>
                 \A q \in Quads :
                     \/ \E j \in (i + 1) .. n : v[j] = ChildPath(v[i], q)
                     \/ \E j \in 1 .. Len(stack) : stack[j] = ChildPath(v[i], q)
       /\ pc = "draw" =>
             \A p \in log.split : \A q \in Quads : ChildPath(p, q) \in Range(v)

\* an update() has returned after splitting a node and then one of the children
\* created by that split, whose siblings are at different distances from the
\* camera
C25_Witness ==
    /\ pc = "draw"
    /\ \E p \in log.split :
          /\ Len(p) = 2
          /\ Parent(p) \in log.split
          /\ \E q \in Quads : CenterDistance(ChildPath(Parent(p), q)) # CenterDistance(p)

\* the leaves of the tree of face f
LeavesOfFace(f) == {p \in DOMAIN nodes : p[1] = f /\ isLeaf(nodes[p])}

\* area of the UV rectangle of a node, in units of 1 / UvOne^2
UvArea(n) == (n.u1 - n.u0) * (n.v1 - n.v0)

RECURSIVE TotalArea(_)
TotalArea(ps) ==
    IF ps = {} THEN 0
    ELSE LET p == CHOOSE q \in ps : TRUE IN UvArea(nodes[p]) + TotalArea(ps \ {p})

\* the interiors of the UV rectangles of two nodes have a point in common
UvOverlap(a, b) == a.u0 < b.u1 /\ b.u0 < a.u1 /\ a.v0 < b.v1 /\ b.v0 < a.v1

\* C26: the children of a node carry the face index of their parent and the
\* four quadrants obtained by bisecting its u and v ranges at their midpoints,
\* so that at every moment, after any splits and merges, the UV rectangles of
\* the leaves of each face tile [-1, 1] x [-1, 1]: they lie inside it, their
\* interiors are pairwise disjoint and their areas add up to the area of the face
C26_LeavesTileFace ==
    /\ \A p \in DOMAIN nodes : \A q \in Quads :
          nodes[p].children[q + 1] =>
              LET n == nodes[p]
                  c == nodes[ChildPath(p, q)]
                  uMid == (n.u0 + n.u1) \div 2
                  vMid == (n.v0 + n.v1) \div 2
              IN /\ 2 * uMid = n.u0 + n.u1
                 /\ 2 * vMid = n.v0 + n.v1
                 /\ c.faceIndex = n.faceIndex
                 /\ c.depth = n.depth + 1
                 /\ <<c.u0, c.u1>> = (IF q \in {0, 2} THEN <<n.u0, uMid>> ELSE <<uMid, n.u1>>)
                 /\ <<c.v0, c.v1>> = (IF q \in {0, 1} THEN <<n.v0, vMid>> ELSE <<vMid, n.v1>>)
    /\ \A f \in Faces :
          /\ \A p \in LeavesOfFace(f) :
                /\ nodes[p].faceIndex = f
                /\ -UvOne <= nodes[p].u0 /\ nodes[p].u0 < nodes[p].u1 /\ nodes[p].u1 <= UvOne
                /\ -UvOne <= nodes[p].v0 /\ nodes[p].v0 < nodes[p].v1 /\ nodes[p].v1 <= UvOne
          /\ \A p, q \in LeavesOfFace(f) : p # q => ~UvOverlap(nodes[p], nodes[q])
          /\ TotalArea(LeavesOfFace(f)) = (2 * UvOne) * (2 * UvOne)

\* a node that was split in an earlier frame has been merged into a leaf
\* again, while there are leaves at the greatest depth
C26_Witness ==
    /\ \E p \in log.merged : isLeaf(nodes[p])
    /\ \E p \in DOMAIN nodes : isLeaf(nodes[p]) /\ nodes[p].depth = MAX_DEPTH

\* the calls of generate() with a grid of at least two vertices a side
GridCalls == {k \in 1 .. Len(meshData) : meshData[k].args[6] >= 2 /\ meshData[k].ret = "ok"}

\* C27: for every N >= 2 generate() returns N * N grid vertices followed by 4 N
\* skirt vertices, and 6 (N - 1)^2 grid indices followed by 24 (N - 1) skirt
\* indices; every index is below the vertex count, the grid indices refer to
\* grid vertices only, and every edge vertex and interior neighbour that the
\* skirt code reads lies inside the grid, so that no read leaves the vertex
\* array
C27_MeshShape ==
    \A k \in 1 .. Len(meshData) :
        meshData[k].args[6] >= 2 =>
            LET m == meshData[k]
                N == m.args[6]
            IN /\ m.ret = "ok"
               /\ ~m.ub
               /\ Len(m.vertices) = N * N + 4 * N
               /\ \A i \in 1 .. Len(m.vertices) :
                     m.vertices[i].kind = (IF i <= N * N THEN "grid" ELSE "skirt")
               /\ Len(m.indices) = 6 * (N - 1) * (N - 1) + 24 * (N - 1)
               /\ \A i \in 1 .. Len(m.indices) :
                     /\ m.indices[i] >= 0
                     /\ m.indices[i] < Len(m.vertices)
                     /\ i <= 6 * (N - 1) * (N - 1) => m.indices[i] < N * N
               /\ \A i \in (N * N + 1) .. Len(m.vertices) :
                     /\ m.vertices[i].edge < N * N
                     /\ m.vertices[i].interior < N * N
                     /\ m.vertices[i].interior # m.vertices[i].edge

\* the pairs <<i, j>> of grid vertex numbers of the meshes a and b of two
\* patches of one face and one size that lie on the edge the patches share:
\* the k-th vertex of the last column of a and of the first column of b, or of
\* the last row of a and of the first row of b
SharedEdge(a, b) ==
    LET N == a.args[6]
        proper(m) == m.ret = "ok" /\ m.args[2] < m.args[3] /\ m.args[4] < m.args[5]
    IN IF ~(proper(a) /\ proper(b) /\ N >= 2 /\ b.args[6] = N /\ a.args[1] = b.args[1]
              /\ ~a.ub /\ ~b.ub)
       THEN {}
       ELSE IF a.args[3] = b.args[2] /\ a.args[4] = b.args[4] /\ a.args[5] = b.args[5]
       THEN {<<k * N + (N - 1), k * N>> : k \in 0 .. N - 1}
       ELSE IF a.args[5] = b.args[4] /\ a.args[2] = b.args[2] /\ a.args[3] = b.args[3]
       THEN {<<(N - 1) * N + k, k>> : k \in 0 .. N - 1}
       ELSE {}

\* the world position a stored vertex stands for: its float offset added to
\* the worldCenter of its patch
Reconstructed(m, i) == [a \in 1 .. 3 |-> m.vertices[i + 1].position[a] + m.worldCenter[a]]

\* C28 as stated: two sibling leaves of equal depth sample their shared edge at
\* the same (face, u, v), and the k-th vertices of the two along that edge
\* stand for the same world position once each stored offset is added to the
\* worldCenter of its own patch
C28_SharedEdgeCoincides ==
    \A a, b \in 1 .. Len(meshData) :
        \A e \in SharedEdge(meshData[a], meshData[b]) :
            LET va == meshData[a].vertices[e[1] + 1]
                vb == meshData[b].vertices[e[2] + 1]
            IN /\ va.u = vb.u
               /\ va.v = vb.v
               /\ Reconstructed(meshData[a], e[1]) = Reconstructed(meshData[b], e[2])

\* C28, amended: the two patches sample the shared edge at the same (face, u, v)
\* and so at the same double-precision world position; each stores the offset
\* of that position from its own worldCenter rounded to a float, so the two
\* reconstructed positions agree in each coordinate to within the rounding of
\* the two offsets, 2^-(FloatBits - 1) of the sum of their magnitudes
C28_SharedEdgeWithinRounding ==
    \A a, b \in 1 .. Len(meshData) :
        \A e \in SharedEdge(meshData[a], meshData[b]) :
            LET ma == meshData[a]
                mb == meshData[b]
                va == ma.vertices[e[1] + 1]
                vb == mb.vertices[e[2] + 1]
            IN /\ va.u = vb.u
               /\ va.v = vb.v
               /\ sampleWorldPos(ma.args[1], va.u[1], va.v[1], va.u[2])
                    = sampleWorldPos(mb.args[1], vb.u[1], vb.v[1], vb.u[2])
               /\ \A c \in 1 .. 3 :
                     Pow2(FloatBits - 1)
                         * Abs(Reconstructed(ma, e[1])[c] - Reconstructed(mb, e[2])[c])
                       <= Abs(va.position[c]) + Abs(vb.position[c])

\* two quadrants of one face have been generated with a grid of three vertices
\* a side, and a vertex on their shared edge is reconstructed at two different
\* positions
C28_Witness ==
    \E a, b \in 1 .. Len(meshData) :
        /\ meshData[a].args[6] = 3
        /\ \E e \in SharedEdge(meshData[a], meshData[b]) :
              Reconstructed(meshData[a], e[1]) # Reconstructed(meshData[b], e[2])

(* ------------------------------------------------------------------ *)
(* The screen error of updateNode() on its own                         *)
(* ------------------------------------------------------------------ *)
\* bounding radii of the patch and values of
\* screenHeight / (2 tan(fovY / 2)) tried
PatchRadii == {40, 100}
Scales == {1, 50}

\* the first lines of updateNode() for a patch of bounding radius r centred at
\* the origin, with the camera at pos
Measure(r, scale, pos) ==
    /\ Len(screen) < 2
    /\ \A k \in 1 .. Len(screen) : screen[k].r = r /\ screen[k].scale = scale
    /\ LET node == [worldCenter |-> <<0, 0, 0>>, boundingRadius |-> r]
           c == [pos |-> pos, scale |-> scale, planes |-> WideFrustum]
       IN screen' = <<[r |-> r, scale |-> scale,
                       distance |-> Length(VSub(node.worldCenter, pos)),
                       error |-> screenError(node, c)]>> \o screen
    /\ UNCHANGED <<nodes, deferredDestroy_, activeNodes_, batchCount_, splitBudget, stack, cam,
                   cmdCopies, queue, inFlight, currentFrame, pc, frameNo, freedInFlight, log,
                   staging, history, heightmap, meshData, device, loop, sim, objects>>

NextScreen ==
    \E r \in PatchRadii, scale \in Scales, d \in 0 .. MaxDistance, e \in {0, 3} :
        Measure(r, scale, <<d, e, 0>>)

SpecScreen == Init /\ [][NextScreen]_vars

\* C29: for a fixed patch, field of view and screen height the screen error
\* does not increase with the distance of the camera, and it is the same for
\* all distances at or below a tenth of the bounding radius
C29_ErrorNonIncreasing ==
    \A i, j \in 1 .. Len(screen) :
        LET a == screen[i]
            b == screen[j]
        IN /\ a.distance <= b.distance =>
                 a.error.num * b.error.den >= b.error.num * a.error.den
           /\ (10 * a.distance <= a.r /\ 10 * b.distance <= b.r) =>
                 a.error.num * b.error.den = b.error.num * a.error.den

\* the error of one patch has been evaluated at two different distances, the
\* nearer one inside the tenth of its bounding radius and not at its centre,
\* the farther one beyond it, where the error is strictly smaller
C29_Witness ==
    /\ Len(screen) = 2
    /\ screen[2].distance > 0
    /\ 10 * screen[2].distance < screen[2].r
    /\ 10 * screen[1].distance > screen[1].r
    /\ screen[1].error.num * screen[2].error.den < screen[2].error.num * screen[1].error.den

\* the proper ancestors of the node at path p
Ancestors(p) == {SubSeq(p, 1, k) : k \in 1 .. (Len(p) - 1)}

\* C30: a leaf is drawn only if its own bounding sphere and the bounding sphere
\* of every one of its ancestors pass the frustum test: drawNode returns without
\* a look at the descendants of a culled node, so a leaf with a mesh whose own
\* sphere is in the frustum is not drawn when the sphere of an ancestor is not
C30_CulledSubtreeSkipped ==
    [][DrawStep =>
          LET drawn == queue'[Len(queue')].meshes
          IN \A p \in DOMAIN nodes :
                (isLeaf(nodes[p]) /\ hasMesh(nodes[p])) =>
                    /\ nodes[p].mesh \in drawn =>
                          /\ visible(nodes[p], cam)
                          /\ \A a \in Ancestors(p) : visible(nodes[a], cam)
                    /\ (\E a \in Ancestors(p) : ~visible(nodes[a], cam)) =>
                          nodes[p].mesh \notin drawn]_vars

\* the frame just drawn left out the mesh of a leaf whose own bounding sphere
\* is in the frustum, under an ancestor that is not, and drew the mesh of
\* another leaf
C30_Witness ==
    /\ pc = "idle"
    /\ queue # <<>>
    /\ queue[Len(queue)].kind = "draw"
    /\ queue[Len(queue)].meshes # {}
    /\ \E p \in DOMAIN nodes :
          /\ isLeaf(nodes[p]) /\ hasMesh(nodes[p]) /\ visible(nodes[p], cam)
          /\ \E a \in Ancestors(p) : ~visible(nodes[a], cam)
          /\ nodes[p].mesh \notin queue[Len(queue)].meshes

\* the leaves of the whole forest
ForestLeaves == {p \in DOMAIN nodes : isLeaf(nodes[p])}

\* C31: when update() has returned, activeNodeCount() is the number of leaves
\* of the forest as that update() left it: a leaf that stayed a leaf, a child
\* created by a split that was not split in turn and a node made a leaf by a
\* merge are each counted once, and no interior node is counted
C31_ActiveNodesAreLeaves ==
    /\ (pc = "draw" \/ (pc = "idle" /\ frameNo > 0)) =>
          activeNodes_ = Cardinality(ForestLeaves)
    /\ pc = "update" =>
          activeNodes_ = Cardinality({p \in Range(log.visited) : isLeaf(nodes[p])})
    /\ pc = "draw" =>
          /\ \A p \in log.merged : isLeaf(nodes[p])
          /\ \A p \in log.split : ~isLeaf(nodes[p])
          /\ ForestLeaves \subseteq Range(log.visited)

\* an update() has returned after splitting a node, leaving a child of it a
\* leaf, and merging another node
C31_Witness ==
    /\ pc = "draw"
    /\ log.merged # {}
    /\ \E p \in log.split : \E q \in Quads : isLeaf(nodes[ChildPath(p, q)])
    /\ activeNodes_ > 6

\* C32: the deferred-destroy queue is empty whenever update() has returned:
\* the mesh of every node split and the meshes of the four children of every
\* node merged during an update() are released at the end of that update(),
\* none of them is held by a node afterwards, and no entry is carried over to
\* the next frame
C32_DeferredQueueEmptied ==
    /\ pc \in {"draw", "idle"} => deferredDestroy_ = <<>>
    /\ pc = "update" =>
          /\ Len(deferredDestroy_) = Cardinality(Range(deferredDestroy_))
          /\ Len(deferredDestroy_) = Cardinality(log.split) + 4 * Cardinality(log.merged)
    /\ pc = "draw" =>
          /\ Cardinality(log.released) = Cardinality(log.split) + 4 * Cardinality(log.merged)
          /\ \A p \in DOMAIN nodes : nodes[p].mesh \notin log.released

\* an update() that queued the mesh of a split node and the meshes of the
\* children of a merged node has returned
C32_Witness ==
    /\ pc = "draw"
    /\ deferredDestroy_ = <<>>
    /\ log.split # {}
    /\ log.merged # {}
    /\ Cardinality(log.released) >= 5

\* C33: in the constructor and in every update() the bytes written to a
\* staging batch between its begin() and its submission stay within the
\* capacity passed to begin(): the vertices and indices of one mesh take no more
\* than BYTES_PER_MESH, a batch receives at most MESHES_PER_BATCH meshes (6 in
\* the constructor), and the offset is the sum of what was written
C33_BatchWithinCapacity ==
    /\ VertexBytes + IndexBytes <= BYTES_PER_MESH
    /\ ConstructorBatch.staging.capacity = 6 * BYTES_PER_MESH
    /\ Len(ConstructorBatch.staging.writes) = 2 * 6
    /\ ConstructorBatch.staging.offset <= ConstructorBatch.staging.capacity
    /\ staging.offset <= staging.capacity
    /\ staging.offset = SumOfSizes(staging.writes, Len(staging.writes))
    /\ Len(staging.writes) <= 2 * MESHES_PER_BATCH
    /\ pc = "update" => staging.capacity = MESHES_PER_BATCH * BYTES_PER_MESH
    /\ \A i \in 1 .. Len(history.transfers) :
          Cardinality(history.transfers[i]) * (VertexBytes + IndexBytes)
              <= MESHES_PER_BATCH * BYTES_PER_MESH

\* an update() that has submitted a full batch after merges and splits is
\* filling the next one
C33_Witness ==
    /\ pc = "update"
    /\ log.merged # {}
    /\ \E i \in 1 .. Len(history.transfers) :
          Cardinality(history.transfers[i]) = MESHES_PER_BATCH
    /\ staging.offset >= VertexBytes + IndexBytes


(* ------------------------------------------------------------------ *)
(* The frame loop on its own                                           *)
(* ------------------------------------------------------------------ *)
LoopOthers == <<nodes, deferredDestroy_, activeNodes_, batchCount_, splitBudget, stack,
                cam, cmdCopies, queue, inFlight, currentFrame, pc, frameNo,
                freedInFlight, log, staging, history, heightmap, meshData, device,
                screen, sim, objects>>

\* one pass through the body of the while loop
Iterate(in) ==
    /\ loop.state = "running"
    /\ loop.iterations < MaxIterations
    /\ loop' = iteration(loop, in)
    /\ UNCHANGED LoopOthers

\* the device completes a submission while the loop runs or waits
DeviceExecutes ==
    /\ loop.pending # <<>>
    /\ loop' = deviceExecutes(loop)
    /\ UNCHANGED LoopOthers

NextLoop ==
    \/ \E in \in LoopInputs : Iterate(in)
    \/ DeviceExecutes

SpecLoop == Init /\ [][NextLoop]_vars

\* C34: while the loop runs, a fence that is not signalled belongs to a slot
\* with a submission on the queue that will signal it; an iteration that left
\* early (close event, fence timeout, acquire timeout or not ready, out-of-date
\* swapchain) has reset no fence; an iteration that reset the fence has
\* submitted in the same iteration, unless an exception ended the process; and
\* every fence wait that timed out was a wait for a pending submission
C34_ResetOnlyBeforeSubmit ==
    /\ loop.state = "running" =>
          \A s \in Slots : ~loop.fence[s] => s \in Range(loop.pending)
    /\ loop.last.path \in {"closed", "fence_timeout", "acquire_timeout",
                           "acquire_out_of_date"} => ~loop.last.reset
    /\ loop.last.reset /\ ~loop.last.submitted => loop.state = "terminated"
    /\ loop.last.path = "fence_timeout" => loop.last.awaited

\* an acquire timeout while both slots are in flight, then a fence timeout that
\* waits for the pending submission of the slot
C34_Witness ==
    /\ loop.state = "running"
    /\ loop.last.path = "fence_timeout"
    /\ loop.last.awaited
    /\ Len(loop.pending) = MAX_FRAMES_IN_FLIGHT
    /\ \A s \in Slots : ~loop.fence[s]

MaxSteps ==
    3

SimOthers == <<nodes, deferredDestroy_, activeNodes_, batchCount_, splitBudget, stack,
               cam, cmdCopies, queue, inFlight, currentFrame, pc, frameNo,
               freedInFlight, log, staging, history, heightmap, meshData, device,
               screen, loop, objects>>

\* the scenarios: the lander starts just below or above the surface, or high up
StartAltitudes == {-5, 20, 150000}
StartVertical == {-500, -391, -390, 0}
StartTangential == {0, 199, 200}
StartFuel == {50, 200000}
TerrainElevations == {0, 1000}
TimeSteps == {0, 1, 5, 10}
Throttles == {0, 100}
Torques == {0, 500}

\* main(): simState is placed and the physics gets its terrain query
Place(alt, vr, vt, fuel, terrainElev) ==
    /\ ~sim.placed
    /\ sim' = [sim EXCEPT !.placed = TRUE, !.terrain = terrainElev,
                          !.state = [@ EXCEPT
                              !.position = LUNAR_RADIUS + terrainElev + alt,
                              !.velocity = <<vr, vt>>,
                              !.fuelMass = fuel]]
    /\ UNCHANGED SimOthers

\* main(): the keys set simState.throttle and simState.torqueInput
SetInput(throttle, torque) ==
    /\ sim.placed
    /\ sim.calls < MaxSteps
    /\ sim' = [sim EXCEPT !.state.throttle = throttle, !.state.torqueInput = torque]
    /\ UNCHANGED SimOthers

\* main(): physics.step(simState, dt)
Step(dt) ==
    /\ sim.placed
    /\ sim.calls < MaxSteps
    /\ sim' = [sim EXCEPT !.before = sim.state,
                          !.dt = dt,
                          !.state = step(sim.state, dt, sim.terrain),
                          !.calls = @ + 1]
    /\ UNCHANGED SimOthers

NextPhysics ==
    \/ \E alt \in StartAltitudes, vr \in StartVertical, vt \in StartTangential,
          fuel \in StartFuel, t \in TerrainElevations : Place(alt, vr, vt, fuel, t)
    \/ \E throttle \in Throttles, torque \in Torques : SetInput(throttle, torque)
    \/ \E dt \in TimeSteps : Step(dt)

SpecPhysics == Init /\ [][NextPhysics]_vars

\* C36: a step() that starts in the phase Landed or Crashed leaves every field
\* of the SimState as it was, for every time step and whatever throttle and
\* torque the state carries; so the phase stays Landed or Crashed
C36_LandedCrashedAbsorbing ==
    [][(sim'.calls # sim.calls /\ sim.state.phase \in Absorbing)
          => sim'.state = sim.state]_vars

\* a step() with a time step above the clamp, full throttle and a torque input was
\* made on a landed lander that has fuel
C36_Witness ==
    /\ sim.calls >= 2
    /\ sim.before.phase = "Landed"
    /\ sim.state = sim.before
    /\ sim.dt > DtMax
    /\ sim.state.throttle > 0
    /\ sim.state.torqueInput > 0
    /\ sim.state.fuelMass > 0

\* C37: after a step() that started in a phase other than Landed and Crashed and
\* ended with the altitude at or below 0, the phase is Landed when the absolute
\* vertical speed is below LANDING_SPEED and the surface speed is below
\* LANDING_HORIZ_SPEED, and Crashed otherwise; the altitude is 0 and velocity and
\* angular velocity are zero
C37_TouchdownOutcome ==
    (sim.calls > 0 /\ sim.before.phase \notin Absorbing /\ sim.state.altitude <= 0) =>
        /\ sim.state.phase =
              IF /\ Abs(sim.state.verticalSpeed) < LANDING_SPEED
                 /\ sim.state.surfaceSpeed < LANDING_HORIZ_SPEED
              THEN "Landed" ELSE "Crashed"
        /\ sim.state.altitude = 0
        /\ sim.state.velocity = <<0, 0>>
        /\ sim.state.angularVelocity = 0

\* a touchdown below both speed limits with the throttle open and a torque
\* input: the phase is Landed, not Terminal, and the rotation is stopped
C37_Witness ==
    /\ sim.calls > 0
    /\ sim.before.phase \notin Absorbing
    /\ sim.before.throttle > 0
    /\ sim.before.fuelMass > 0
    /\ sim.before.torqueInput > 0
    /\ sim.dt > 0
    /\ sim.state.verticalSpeed # 0
    /\ sim.state.phase = "Landed"
    /\ sim.state.altitude = 0

(* ------------------------------------------------------------------ *)
(* Buffer objects on their own                                         *)
(* ------------------------------------------------------------------ *)
ObjectOthers == <<nodes, deferredDestroy_, activeNodes_, batchCount_, splitBudget, stack,
                  cam, cmdCopies, queue, inFlight, currentFrame, pc, frameNo,
                  freedInFlight, log, staging, history, heightmap, meshData, device,
                  screen, loop, sim>>

Objects == 1 .. MaxObjects

MakeBuffer(o) ==
    /\ objects.ops < MaxOps
    /\ ~objects.bufs[o].alive
    /\ objects.made < MaxBuffers
    /\ objects' = makeBuffer(objects, o, 64)
    /\ UNCHANGED ObjectOthers

DefaultConstruct(o) ==
    /\ objects.ops < MaxOps
    /\ ~objects.bufs[o].alive
    /\ objects' = defaultBuffer(objects, o)
    /\ UNCHANGED ObjectOthers

MoveConstruct(o, other) ==
    /\ objects.ops < MaxOps
    /\ ~objects.bufs[o].alive
    /\ objects.bufs[other].alive
    /\ objects' = moveConstruct(objects, o, other)
    /\ UNCHANGED ObjectOthers

MoveAssign(o, other) ==
    /\ objects.ops < MaxOps
    /\ objects.bufs[o].alive
    /\ objects.bufs[other].alive
    /\ objects' = moveAssign(objects, o, other)
    /\ UNCHANGED ObjectOthers

Release(o) ==
    /\ objects.ops < MaxOps
    /\ objects.bufs[o].alive
    /\ objects' = release(objects, o)
    /\ UNCHANGED ObjectOthers

Destroy(o) ==
    /\ objects.ops < MaxOps
    /\ objects.bufs[o].alive
    /\ objects' = destroyObject(objects, o)
    /\ UNCHANGED ObjectOthers

NextObjects ==
    \/ \E o \in Objects : MakeBuffer(o)
    \/ \E o \in Objects : DefaultConstruct(o)
    \/ \E o, other \in Objects : MoveConstruct(o, other)
    \/ \E o, other \in Objects : MoveAssign(o, other)
    \/ \E o \in Objects : Release(o)
    \/ \E o \in Objects : Destroy(o)

SpecObjects == Init /\ [][NextObjects]_vars

\* the handles passed to vkDestroyBuffer / vkFreeMemory so far
DestroyedBuffers == {objects.destroyBuffer[i].handle : i \in 1 .. Len(objects.destroyBuffer)}
FreedMemories == {objects.freeMemory[i].handle : i \in 1 .. Len(objects.freeMemory)}

\* C38: every buffer and memory handle is destroyed at most once, by the one
\* living object that held it at that moment, and no living object holds a
\* destroyed handle or a handle that another living object holds; after a move
\* the source holds null handles and size 0 and the target holds the source's
\* handles; a move assignment from another object has destroyed exactly the
\* target's previous handles; release() destroys nothing and leaves null handles
C38_HandlesDestroyedOnceByOwner ==
    /\ Cardinality(DestroyedBuffers) = Len(objects.destroyBuffer)
    /\ Cardinality(FreedMemories) = Len(objects.freeMemory)
    /\ \A i \in 1 .. Len(objects.destroyBuffer) :
          objects.destroyBuffer[i].holders = {objects.destroyBuffer[i].by}
    /\ \A i \in 1 .. Len(objects.freeMemory) :
          objects.freeMemory[i].holders = {objects.freeMemory[i].by}
    /\ \A h \in 1 .. MaxBuffers :
          /\ Cardinality(BufferHolders(objects, h)) <= 1
          /\ Cardinality(MemoryHolders(objects, h)) <= 1
          /\ h \in DestroyedBuffers => BufferHolders(objects, h) = {}
          /\ h \in FreedMemories => MemoryHolders(objects, h) = {}
    /\ (objects.last.op \in {"moveConstruct", "moveAssign"}
           /\ objects.last.self # objects.last.other) =>
          /\ objects.bufs[objects.last.other] = DefaultBuffer
          /\ objects.bufs[objects.last.self].buffer_ = objects.last.srcBuffer
          /\ objects.bufs[objects.last.self].memory_ = objects.last.srcMemory
    /\ (objects.last.op = "moveAssign" /\ objects.last.self # objects.last.other) =>
          /\ objects.last.destroyed = {objects.last.hadBuffer} \ {0}
          /\ objects.last.freed = {objects.last.hadMemory} \ {0}
    /\ (objects.last.op = "moveAssign" /\ objects.last.self = objects.last.other) =>
          /\ objects.last.destroyed = {}
          /\ objects.bufs[objects.last.self].buffer_ = objects.last.hadBuffer
    /\ objects.last.op = "moveConstruct" => objects.last.destroyed = {}
    /\ objects.last.op = "release" =>
          /\ objects.last.destroyed = {} /\ objects.last.freed = {}
          /\ objects.bufs[objects.last.self] = DefaultBuffer
    /\ objects.last.op = "destroy" =>
          /\ objects.last.destroyed = {objects.last.hadBuffer} \ {0}
          /\ objects.last.freed = {objects.last.hadMemory} \ {0}

\* two buffers made, the second move-assigned over the first (which is
\* destroyed), and a moved-from object destroyed without a device call
C38_Witness ==
    /\ objects.last.op = "destroy"
    /\ objects.last.hadBuffer = 0
    /\ Len(objects.destroyBuffer) = 1
    /\ \E o \in Objects : objects.bufs[o].alive /\ objects.bufs[o].buffer_ = MaxBuffers
    /\ objects.made = MaxBuffers
====
